---- MODULE Spec2Model ----
(***************************************************************************)
(* Model of the event tooling of ethers-contract-tools:                    *)
(*   - the ordered matcher _orderedFilter (event-filters.ts), reached      *)
(*     through expectEvents / expectEmittersAndEvents / expectOrdered;     *)
(*   - the filter builder _buildFilterArgs (event-filters.ts);             *)
(*   - the value matcher isDeepEqual / _matchProperties and the topic      *)
(*     matcher _matchTopics (event-filters.ts);                            *)
(*   - the event factory: expectOne, all, waitAll, newListener             *)
(*     (event-factory.ts, event-listener.ts, transaction.ts);              *)
(*   - the log decoder filterEventFromLog (event-filters.ts);              *)
(*   - occurrenceAtMost (time.ts);                                         *)
(*   - wrapImportedFactories (contract-wrappers.ts).                       *)
(* JavaScript values are tagged records: [t |-> "number", v |-> 1],        *)
(* [t |-> "null"], [t |-> "undefined"], [t |-> "array", v |-> <<..>>] ...  *)
(* Positions in logs and parameter lists are 0-based as in the source;     *)
(* TLA+ sequences are 1-based, so position j is element j + 1.             *)
(***************************************************************************)
EXTENDS Integers, Sequences, FiniteSets, TLC

VARIABLES
    \* ---- _orderedFilter(actuals, expecteds, forwardOnly) ----
    actuals,          \* the receipt's logs
    expecteds,        \* the filters
    forwardOnly,      \* the forwardOnly argument
    i,                \* outer loop index (filter)
    j,                \* inner loop index (log position)
    matched,          \* boolean[] matched, one flag per log position
    prevActualIndex,  \* position of the previous match, -1 initially
    result,           \* decoded events pushed so far
    resultAddr,       \* emitter addresses pushed so far
    pc,               \* "idle" | "scan" | "done"
    outcome,          \* "none" | "returned" | "WrongOrder" | "NotAllFound"
    err,              \* the failed assertion's [actual, expected] operands
    matchedAt,        \* history: per scanned filter, the position it took, -1 if none
    \* ---- _buildFilterArgs(fragment, properties) ----
    fragment,         \* the event fragment
    properties,       \* the filter spec given by the caller
    bpc,              \* "idle" | "start" | "loop" | "return" | "done"
    index,            \* forEach index over fragment.inputs
    namedCount,       \* named keys not yet consumed
    indexed,          \* topic arguments pushed so far
    nonIndexed,       \* non-indexed constraints pushed so far
    hasNonIndexed,    \* a non-indexed parameter got a non-null value
    built,            \* "none", or the failure, or the returned tuple
    \* ---- two builds of one filter, positional then named ----
    prior,            \* "none", or the positional spec and what it built
    \* ---- the value matcher applied to one pair of values ----
    expectedValue,    \* the value the caller expects
    actualValue,      \* the decoded value
    vpc,              \* "idle" | "start" | "deep" | "done"
    verdict,          \* "none", or the outcome of isDeepEqual
    propsVerdict,     \* "none", or the outcome of _matchProperties
    \* ---- the event factory: expectOne(receipt, expected), all(receipt, fn) ----
    receipt,          \* receipt.logs
    expectedIn,       \* the expected argument of expectOne, or undefined
    fn,               \* the fn argument of all, or undefined
    call,             \* "none" | "expectOne" | "all"
    fpc,              \* "idle" | "start" | "found" | "verify" | "done"
    found,            \* the Results pushed by findEventArgs
    cursor,           \* position of the Result being verified
    ret,              \* "none", or the failure, or the returned value
    source,           \* the source argument of waitAll, or "none"
    fnArgs,           \* history: whether fn was invoked, and with which Results
    \* ---- an EventListener of the factory ----
    lpc,              \* "idle" | "listening"
    events,           \* this._events
    pushes,           \* history: the emissions delivered so far
    lastPush,         \* "none", or how the handler ended for the last emission
    \* ---- filterEventFromLog(logs, filter) ----
    logEntries,       \* logs
    logFilter,        \* filter
    dpc,              \* "idle" | "start" | "decode" | "done"
    decoders,         \* the lookup made by filtersToDecoders
    decodedLogs,      \* "none", or the returned Results
    \* ---- _matchTopics(actual, expected) on one record and one filter ----
    actualLog,        \* actual
    expectedFilter,   \* expected
    tpc,              \* "idle" | "start" | "done"
    topicsVerdict,    \* "none", or the returned boolean
    \* ---- the ordered matcher called twice on the same logs and filters ----
    priorRun,         \* "none", or what the call with forwardOnly false returned
    \* ---- occurrenceAtMost(earlyStop, maximumDelayMs) ----
    maximumDelayMs,   \* maximumDelayMs
    passedMs,         \* passedMs
    opc,              \* "idle" | "test" | "sleeping" | "done"
    sleptMs,          \* history: the sum of the sleeps started so far
    stopped,          \* history: earlyStop() has returned true
    \* ---- a function of wrapImportedFactories(imports, defaultSigner) ----
    method,           \* "none" | "deploy" | "deployWithDelegate" | "attach" | "attachWithDelegate"
    callSigner,       \* the signer passed to the call (signer of deploy / attach, signer2)
    delegateSigner,   \* the signer given to deployWithDelegate / attachWithDelegate
    defaultSigner,    \* defaultSigner
    factoryClass,     \* imports[name + '__factory']
    wpc,              \* "idle" | "start" | "await" | "constructed" | "done"
    awaited,          \* what findSignerAsync returned, under await
    factory,          \* "none", or the signer the factory was constructed / connected with
    wrapped           \* "none", or how the call ended

vars == <<actuals, expecteds, forwardOnly, i, j, matched, prevActualIndex,
          result, resultAddr, pc, outcome, err, matchedAt,
          fragment, properties, bpc, index, namedCount, indexed, nonIndexed,
          hasNonIndexed, built, prior,
          expectedValue, actualValue, vpc, verdict, propsVerdict,
          receipt, expectedIn, fn, call, fpc, found, cursor, ret, source, fnArgs,
          lpc, events, pushes, lastPush,
          logEntries, logFilter, dpc, decoders, decodedLogs,
          actualLog, expectedFilter, tpc, topicsVerdict, priorRun,
          maximumDelayMs, passedMs, opc, sleptMs, stopped,
          method, callSigner, delegateSigner, defaultSigner, factoryClass, wpc,
          awaited, factory, wrapped>>

matcherVars == <<actuals, expecteds, forwardOnly, i, j, matched, prevActualIndex,
                 result, resultAddr, pc, outcome, err, matchedAt>>

builderVars == <<fragment, properties, bpc, index, namedCount, indexed, nonIndexed,
                 hasNonIndexed, built>>

\* the variables outside the matcher and the builder
valueVars == <<expectedValue, actualValue, vpc, verdict, propsVerdict>>

factoryVars == <<receipt, expectedIn, fn, call, fpc, found, cursor, ret, source, fnArgs>>

\* the variables of the other machines
listenerVars == <<lpc, events, pushes, lastPush>>

decoderVars == <<logEntries, logFilter, dpc, decoders, decodedLogs>>

topicVars == <<actualLog, expectedFilter, tpc, topicsVerdict>>

timerVars == <<maximumDelayMs, passedMs, opc, sleptMs, stopped>>

wrapperVars == <<method, callSigner, delegateSigner, defaultSigner, factoryClass, wpc,
                 awaited, factory, wrapped>>

lateVars == <<listenerVars, decoderVars, topicVars, priorRun, timerVars, wrapperVars>>

auxVars == <<prior, valueVars, factoryVars, lateVars>>

notValue == <<matcherVars, builderVars, prior, factoryVars, lateVars>>

notFactory == <<matcherVars, builderVars, prior, valueVars, lateVars>>

----------------------------------------------------------------------------
\* Bounds of the model

MaxLogs == 3

MaxFilters == 3

MaxItems == 3

----------------------------------------------------------------------------
\* JavaScript values

Null == [t |-> "null"]

Undefined == [t |-> "undefined"]

Num(n) == [t |-> "number", v |-> n]

Str(s) == [t |-> "string", v |-> s]

Arr(s) == [t |-> "array", v |-> s]

Obj(f) == [t |-> "object", v |-> f]

Bool(b) == [t |-> "boolean", v |-> b]

\* typeof v
TypeOf(v) ==
    CASE v.t = "number" -> "number"
      [] v.t = "string" -> "string"
      [] v.t = "boolean" -> "boolean"
      [] v.t = "undefined" -> "undefined"
      [] OTHER -> "object"

\* v0 === v1 for primitives, null and undefined
StrictEq(v0, v1) ==
    IF v0.t # v1.t THEN FALSE
    ELSE IF v0.t \in {"number", "string", "boolean"} THEN v0.v = v1.v
    ELSE v0.t \in {"null", "undefined"}

\* v ?? null
OrNull(v) == IF v.t = "undefined" THEN Null ELSE v

\* s[n], undefined when out of range (n is 0-based)
At(s, n) == IF n + 1 \in DOMAIN s THEN s[n + 1] ELSE Undefined

\* String.prototype.toUpperCase on the addresses of the model
ToUpperCase(a) ==
    CASE a = "0xa" -> "0XA"
      [] a = "0xA" -> "0XA"
      [] a = "0xb" -> "0XB"
      [] a = "0xB" -> "0XB"
      [] OTHER -> a

SeqsUpTo(S, n) == UNION {[1..k -> S] : k \in 0..n}

----------------------------------------------------------------------------
\* Value matcher

\* String(n) for the array indices of the model
IndexKey(n) == <<"0", "1", "2", "3", "4", "5", "6", "7", "8", "9">>[n + 1]

\* the own property names of an array or an object, as a set
KeySet(v) ==
    IF v.t = "array"
    THEN {IndexKey(n) : n \in 0..(Len(v.v) - 1)} \cup {"length"}
    ELSE DOMAIN v.v

\* the order in which the keys of the model are listed: array indices
\* ascending, then the other keys in the order the objects are written with
KeyOrder == <<"0", "1", "2", "3", "4", "5", "6", "7", "8", "9", "length", "a", "hash", "_isIndexed">>

\* Object.getOwnPropertyNames(v) of an array or an object
OwnPropertyNames(v) == SelectSeq(KeyOrder, LAMBDA key : key \in KeySet(v))

\* v[key] of an array or an object
Get(v, key) ==
    IF key \notin KeySet(v) THEN Undefined
    ELSE IF v.t # "array" THEN v.v[key]
    ELSE IF key = "length" THEN Num(Len(v.v))
    ELSE v.v[(CHOOSE n \in 0..(Len(v.v) - 1) : IndexKey(n) = key) + 1]

\* the boolean a call returns
Returns(b) == IF b THEN "true" ELSE "false"

\* isDeepEqual(v0, v1): "true" or "false" as returned, or "TypeError" when
\* Object.getOwnPropertyNames is reached with null
RECURSIVE isDeepEqual(_, _), ElementsEqual(_, _, _), PropertiesEqual(_, _, _, _)
isDeepEqual(v0, v1) ==
    IF TypeOf(v0) # TypeOf(v1) THEN "false"
    ELSE IF TypeOf(v0) # "object" THEN Returns(StrictEq(v0, v1))
    ELSE IF v0.t = "array" THEN
        IF v1.t # "array" THEN "false"
        ELSE IF Len(v0.v) # Len(v1.v) THEN "false"
        ELSE ElementsEqual(v0.v, v1.v, 1)
    ELSE IF v0.t = "null" \/ v1.t = "null" THEN "TypeError"
    ELSE IF Len(OwnPropertyNames(v0)) # Len(OwnPropertyNames(v1)) THEN "false"
    ELSE PropertiesEqual(v0, v1, OwnPropertyNames(v0), 1)

\* !a0.some((value, i) => !isDeepEqual(value, a1[i])), from element k on
ElementsEqual(a0, a1, k) ==
    IF k > Len(a0) THEN "true"
    ELSE LET eq == isDeepEqual(a0[k], a1[k])
         IN  IF eq = "true" THEN ElementsEqual(a0, a1, k + 1) ELSE eq

\* for (const key of k0), from key k on
PropertiesEqual(v0, v1, k0, k) ==
    IF k > Len(k0) THEN "true"
    ELSE IF k0[k] \notin KeySet(v1) THEN "false"
    ELSE LET eq == isDeepEqual(Get(v0, k0[k]), Get(v1, k0[k]))
         IN  IF eq = "true" THEN PropertiesEqual(v0, v1, k0, k + 1) ELSE eq

\* !expected.some(...), from entry n (0-based) on
RECURSIVE NoneDiffers(_, _, _)
NoneDiffers(actual, expected, n) ==
    IF n >= Len(expected) THEN "true"
    ELSE IF OrNull(At(expected, n)).t = "null" THEN NoneDiffers(actual, expected, n + 1)
    ELSE LET eq == isDeepEqual(At(expected, n), At(actual, n))
         IN  IF eq = "true" THEN NoneDiffers(actual, expected, n + 1) ELSE eq

\* _matchProperties(actual, expected): actual is the decoded Result (a
\* sequence), expected the filter's nonIndexed list; "true" or "false" as
\* returned, or "TypeError" when isDeepEqual raises
_matchProperties(actual, expected) == NoneDiffers(actual, expected, 0)

----------------------------------------------------------------------------
\* Events, logs and filters

StoreFragment ==
    [name |-> "Store", id |-> "Store(uint256)",
     inputs |-> <<[name |-> "value", indexed |-> FALSE, dynamic |-> FALSE]>>]

\* Number of parameters among the first n that are indexed / not indexed
RECURSIVE CountIndexed(_, _, _)
CountIndexed(inputs, n, flag) ==
    IF n = 0 THEN 0
    ELSE CountIndexed(inputs, n - 1, flag)
         + (IF inputs[n].indexed = flag THEN 1 ELSE 0)

\* the value substitute of an indexed parameter of dynamic type: the topic only
Indexed(hash) ==
    Obj([key \in {"hash", "_isIndexed"} |-> IF key = "hash" THEN Str(hash) ELSE Bool(TRUE)])

\* decoder.decodeEventLog(fragment, log.data, log.topics): one entry per
\* parameter; an indexed parameter is read from its topic (of a dynamic type
\* only the hash is there), the others from data
decodeEventLog(frag, data, topics) ==
    [k \in 1..Len(frag.inputs) |->
        IF frag.inputs[k].indexed
        THEN IF frag.inputs[k].dynamic
             THEN Indexed(topics[1 + CountIndexed(frag.inputs, k, TRUE)])
             ELSE Str(topics[1 + CountIndexed(frag.inputs, k, TRUE)])
        ELSE data[CountIndexed(frag.inputs, k, FALSE)]]

\* expected.decodeEventData(actual), bound by newExtendedEventFilter
decodeEventData(expected, actual) ==
    decodeEventLog(expected.fragment, actual.data, actual.topics)

StoreLog(addr, n) ==
    [address |-> addr, topics |-> <<StoreFragment.id>>, data |-> <<Num(n)>>]

\* A filter as built by newExtendedEventFilter for event Store: address is a
\* string or undefined ('*'), nonIndexed an array or undefined
StoreFilter(addr, constraints) ==
    [address |-> addr, topics |-> <<Str(StoreFragment.id)>>,
     nonIndexed |-> constraints, fragment |-> StoreFragment]

LogKinds ==
    {StoreLog("0xa", 1), StoreLog("0xa", 2), StoreLog("0xa", 3), StoreLog("0xb", 2)}

FilterKinds ==
    {StoreFilter(Str("0xA"), Arr(<<Num(2)>>)),
     StoreFilter(Str("0xA"), Arr(<<Num(3)>>)),
     StoreFilter(Undefined, Undefined)}

\* mutant: a null constraint beyond the record's topics is let through
_matchTopics_NullAnywhere(actual, expected) ==
    /\ ~ ( /\ expected.address.t # "undefined"
           /\ ToUpperCase(actual.address) # ToUpperCase(expected.address.v) )
    /\ \A k \in DOMAIN expected.topics :
          IF expected.topics[k].t = "null"
          THEN TRUE
          ELSE /\ k <= Len(actual.topics)
               /\ StrictEq(expected.topics[k], Str(actual.topics[k]))

\* _matchTopics(actual, expected)
_matchTopics(actual, expected) ==
    /\ ~ ( /\ expected.address.t # "undefined"
           /\ ToUpperCase(actual.address) # ToUpperCase(expected.address.v) )
    /\ \A k \in DOMAIN expected.topics :
          /\ k <= Len(actual.topics)
          /\ IF expected.topics[k].t = "null"
             THEN TRUE
             ELSE StrictEq(expected.topics[k], Str(actual.topics[k]))

\* The condition under which log entry `actual` is taken for filter `expected`
Satisfies(actual, expected) ==
    /\ _matchTopics(actual, expected)
    /\ IF expected.nonIndexed.t = "undefined"
       THEN TRUE
       ELSE _matchProperties(decodeEventData(expected, actual), expected.nonIndexed.v) = "true"

----------------------------------------------------------------------------
\* _orderedFilter, one action per iteration of its inner loop

\* mutant: the forward search starts one record too far
SearchStart_SkipOne(fwd, prev) == IF fwd THEN prev + 2 ELSE 0

\* mutant: the search always restarts at the first record
SearchStart_FromZero(fwd, prev) == 0

\* let j = forwardOnly ? prevActualIndex + 1 : 0
SearchStart(fwd, prev) == IF fwd THEN prev + 1 ELSE 0

\* mutant: consumed records are not skipped
IsMatched_Never(m, jj) == FALSE

\* if (matched[j]) continue
IsMatched(m, jj) == m[jj + 1]

\* mutant: the matched record is not flagged as consumed
MarkMatched_Forgotten(m, jj) == m

\* matched[j] = true
MarkMatched(m, jj) == [m EXCEPT ![jj + 1] = TRUE]

\* mutant: the order of the matches is not asserted
OrderOk_Always(jj, prev) == TRUE

\* expect(j, 'Wrong order of events').gt(prevActualIndex)
OrderOk(jj, prev) == jj > prev

\* mutant: the number of results is not asserted
AllFound_Unchecked(res, exps) == TRUE

\* expect(result.length, 'Not all expected events were found').eq(expecteds.length)
AllFound(res, exps) == Len(res) = Len(exps)

\* the builder at rest, while the matcher runs
\* the value matcher at rest
ValueIdle ==
    /\ expectedValue = Undefined
    /\ actualValue = Undefined
    /\ vpc = "idle"
    /\ verdict = "none"
    /\ propsVerdict = "none"

\* no function of wrapImportedFactories called
WrapperIdle ==
    /\ method = "none"
    /\ callSigner = Undefined
    /\ delegateSigner = Undefined
    /\ defaultSigner = Undefined
    /\ factoryClass = Undefined
    /\ wpc = "idle"
    /\ awaited = Undefined
    /\ factory = [status |-> "none"]
    /\ wrapped = [status |-> "none"]

\* occurrenceAtMost not called
TimerIdle ==
    /\ maximumDelayMs = 0
    /\ passedMs = 0
    /\ opc = "idle"
    /\ sleptMs = 0
    /\ stopped = FALSE

\* _matchTopics not called on its own
TopicsIdle ==
    /\ actualLog = Undefined
    /\ expectedFilter = Undefined
    /\ tpc = "idle"
    /\ topicsVerdict = "none"
    /\ priorRun = [status |-> "none"]

\* filterEventFromLog not called
DecoderIdle ==
    /\ logEntries = <<>>
    /\ logFilter = Undefined
    /\ dpc = "idle"
    /\ decoders = {}
    /\ decodedLogs = [status |-> "none"]

\* no listener
ListenerIdle ==
    /\ lpc = "idle"
    /\ events = <<>>
    /\ pushes = <<>>
    /\ lastPush = "none"

\* the event factory at rest
FactoryIdle ==
    /\ receipt = <<>>
    /\ expectedIn = Undefined
    /\ fn = Undefined
    /\ call = "none"
    /\ fpc = "idle"
    /\ found = <<>>
    /\ cursor = 0
    /\ ret = [status |-> "none"]
    /\ source = [kind |-> "none"]
    /\ fnArgs = [called |-> FALSE]

BuilderIdle ==
    /\ fragment = StoreFragment
    /\ properties = [isArray |-> FALSE, items |-> <<>>, named |-> <<>>]
    /\ bpc = "idle"
    /\ index = 0
    /\ namedCount = 0
    /\ indexed = <<>>
    /\ nonIndexed = <<>>
    /\ hasNonIndexed = FALSE
    /\ built = [status |-> "none"]
    /\ prior = [status |-> "none"]

Init ==
    /\ WrapperIdle
    /\ TimerIdle
    /\ TopicsIdle
    /\ DecoderIdle
    /\ ListenerIdle
    /\ actuals \in SeqsUpTo(LogKinds, MaxLogs)
    /\ expecteds \in SeqsUpTo(FilterKinds, MaxFilters)
    /\ forwardOnly \in BOOLEAN
    /\ i = 0
    /\ j = SearchStart(forwardOnly, -1)
    /\ matched = [k \in 1..Len(actuals) |-> FALSE]
    /\ prevActualIndex = -1
    /\ result = <<>>
    /\ resultAddr = <<>>
    /\ pc = "scan"
    /\ outcome = "none"
    /\ err = Undefined
    /\ matchedAt = <<>>
    /\ BuilderIdle
    /\ ValueIdle
    /\ FactoryIdle

Scanning == pc = "scan" /\ i < Len(expecteds) /\ j < Len(actuals)

SkipMatched ==
    /\ Scanning
    /\ IsMatched(matched, j)
    /\ j' = j + 1
    /\ UNCHANGED <<actuals, expecteds, forwardOnly, i, matched, prevActualIndex,
                   result, resultAddr, pc, outcome, err, matchedAt, builderVars, auxVars>>

NoMatch ==
    /\ Scanning
    /\ ~ IsMatched(matched, j)
    /\ ~ Satisfies(actuals[j + 1], expecteds[i + 1])
    /\ j' = j + 1
    /\ UNCHANGED <<actuals, expecteds, forwardOnly, i, matched, prevActualIndex,
                   result, resultAddr, pc, outcome, err, matchedAt, builderVars, auxVars>>

Accept ==
    /\ Scanning
    /\ ~ IsMatched(matched, j)
    /\ Satisfies(actuals[j + 1], expecteds[i + 1])
    /\ OrderOk(j, prevActualIndex)
    /\ prevActualIndex' = j
    /\ matched' = MarkMatched(matched, j)
    /\ result' = Append(result, decodeEventData(expecteds[i + 1], actuals[j + 1]))
    /\ resultAddr' = Append(resultAddr, actuals[j + 1].address)
    /\ matchedAt' = Append(matchedAt, j)
    /\ i' = i + 1
    /\ j' = SearchStart(forwardOnly, j)
    /\ UNCHANGED <<actuals, expecteds, forwardOnly, pc, outcome, err, builderVars, auxVars>>

WrongOrder ==
    /\ Scanning
    /\ ~ IsMatched(matched, j)
    /\ Satisfies(actuals[j + 1], expecteds[i + 1])
    /\ ~ OrderOk(j, prevActualIndex)
    /\ pc' = "done"
    /\ outcome' = "WrongOrder"
    /\ err' = [actual |-> j, expected |-> prevActualIndex]
    /\ UNCHANGED <<actuals, expecteds, forwardOnly, i, j, matched, prevActualIndex,
                   result, resultAddr, matchedAt, builderVars, auxVars>>

\* mutant: the call fails as soon as a filter's scan ends without a match
Exhausted_Eager ==
    /\ pc = "scan"
    /\ i < Len(expecteds)
    /\ j >= Len(actuals)
    /\ pc' = "done"
    /\ outcome' = "NotAllFound"
    /\ err' = [actual |-> Len(result), expected |-> Len(expecteds)]
    /\ matchedAt' = Append(matchedAt, -1)
    /\ UNCHANGED <<actuals, expecteds, forwardOnly, i, j, matched, prevActualIndex,
                   result, resultAddr, builderVars, auxVars>>

\* the inner loop ends without a match: the outer loop goes on
Exhausted ==
    /\ pc = "scan"
    /\ i < Len(expecteds)
    /\ j >= Len(actuals)
    /\ i' = i + 1
    /\ j' = SearchStart(forwardOnly, prevActualIndex)
    /\ matchedAt' = Append(matchedAt, -1)
    /\ UNCHANGED <<actuals, expecteds, forwardOnly, matched, prevActualIndex,
                   result, resultAddr, pc, outcome, err, builderVars, auxVars>>

Return ==
    /\ pc = "scan"
    /\ i >= Len(expecteds)
    /\ AllFound(result, expecteds)
    /\ pc' = "done"
    /\ outcome' = "returned"
    /\ UNCHANGED <<actuals, expecteds, forwardOnly, i, j, matched, prevActualIndex,
                   result, resultAddr, err, matchedAt, builderVars, auxVars>>

NotAllFound ==
    /\ pc = "scan"
    /\ i >= Len(expecteds)
    /\ ~ AllFound(result, expecteds)
    /\ pc' = "done"
    /\ outcome' = "NotAllFound"
    /\ err' = [actual |-> Len(result), expected |-> Len(expecteds)]
    /\ UNCHANGED <<actuals, expecteds, forwardOnly, i, j, matched, prevActualIndex,
                   result, resultAddr, matchedAt, builderVars, auxVars>>

Next ==
    \/ SkipMatched
    \/ NoMatch
    \/ Accept
    \/ WrongOrder
    \/ Exhausted
    \/ Return
    \/ NotAllFound

Spec == Init /\ [][Next]_vars

\* the call with forwardOnly false returned: the same logs and filters are
\* given to a call with forwardOnly true
Rerun ==
    /\ outcome = "returned"
    /\ ~ forwardOnly
    /\ priorRun.status = "none"
    /\ priorRun' = [status |-> "ok", matchedAt |-> matchedAt, result |-> result,
                    resultAddr |-> resultAddr]
    /\ forwardOnly' = TRUE
    /\ i' = 0
    /\ j' = SearchStart(TRUE, -1)
    /\ matched' = [k \in 1..Len(actuals) |-> FALSE]
    /\ prevActualIndex' = -1
    /\ result' = <<>>
    /\ resultAddr' = <<>>
    /\ pc' = "scan"
    /\ outcome' = "none"
    /\ err' = Undefined
    /\ matchedAt' = <<>>
    /\ UNCHANGED <<actuals, expecteds, builderVars, prior, valueVars, factoryVars,
                   listenerVars, decoderVars, topicVars, timerVars, wrapperVars>>

NextBoth ==
    \/ SkipMatched
    \/ NoMatch
    \/ Accept
    \/ WrongOrder
    \/ Exhausted
    \/ Return
    \/ NotAllFound
    \/ Rerun

SpecBoth == Init /\ [][NextBoth]_vars

----------------------------------------------------------------------------
\* _buildFilterArgs(fragment, properties), one action per check and per
\* iteration of fragment.inputs.forEach.  properties is an array (isArray, with
\* its elements in items) and/or carries named keys (named: key -> value).

TransferFragment ==
    [name |-> "Transfer", id |-> "Transfer(address,uint256)",
     inputs |-> <<[name |-> "from", indexed |-> TRUE, dynamic |-> FALSE],
                  [name |-> "value", indexed |-> FALSE, dynamic |-> FALSE]>>]

\* an event whose second parameter has no name
TaggedFragment ==
    [name |-> "Tagged", id |-> "Tagged(uint256,uint256)",
     inputs |-> <<[name |-> "value", indexed |-> TRUE, dynamic |-> FALSE],
                  [name |-> "", indexed |-> FALSE, dynamic |-> FALSE]>>]

Fragments == {StoreFragment, TransferFragment, TaggedFragment}

ItemValues == {Num(5), Num(6), Null}

NamedKeys == {"value", "from", "bogus"}

NamedValues == {Num(5), Num(6), Null, Undefined}

PropertySpecs ==
    {[isArray |-> a, items |-> s, named |-> n] :
        a \in BOOLEAN,
        s \in SeqsUpTo(ItemValues, MaxItems),
        n \in UNION {[D -> NamedValues] : D \in SUBSET NamedKeys}}

\* the matcher at rest, while the builder runs
MatcherIdle ==
    /\ actuals = <<>>
    /\ expecteds = <<>>
    /\ forwardOnly = FALSE
    /\ i = 0
    /\ j = 0
    /\ matched = <<>>
    /\ prevActualIndex = -1
    /\ result = <<>>
    /\ resultAddr = <<>>
    /\ pc = "idle"
    /\ outcome = "none"
    /\ err = Undefined
    /\ matchedAt = <<>>

InitBuild ==
    /\ WrapperIdle
    /\ TimerIdle
    /\ TopicsIdle
    /\ DecoderIdle
    /\ ListenerIdle
    /\ MatcherIdle
    /\ ValueIdle
    /\ FactoryIdle
    /\ fragment \in Fragments
    /\ properties \in {q \in PropertySpecs : q.isArray \/ q.items = <<>>}
    /\ bpc = "start"
    /\ index = 0
    /\ namedCount = 0
    /\ indexed = <<>>
    /\ nonIndexed = <<>>
    /\ hasNonIndexed = FALSE
    /\ built = [status |-> "none"]
    /\ prior = [status |-> "none"]

\* const arrayCount = isArray ? properties.length : 0
ArrayCount(props) == IF props.isArray THEN Len(props.items) ELSE 0

\* mutant: one positional entry more than there are parameters is let through
RangeOk_OffByOne(arrayCount, paramCount) == arrayCount <= paramCount + 1

\* expect(arrayCount, 'Inconsistend set of indexed properties').lte(fragment.inputs.length)
RangeOk(arrayCount, paramCount) == arrayCount <= paramCount

\* the for-in loop: the keys of properties that are not array indices
NamedKeyCount(props) == Cardinality(DOMAIN props.named)

\* properties[param.name]
NamedValue(props, param) ==
    IF param.name \in DOMAIN props.named THEN props.named[param.name] ELSE Undefined

\* isArray ? properties[index] ?? null : null
PositionalValue(props, n) ==
    IF props.isArray THEN OrNull(At(props.items, n)) ELSE Null

\* mutant: the positional and the named value are not compared
Consistent_Unchecked(namedValue, value) == TRUE

\* expect(namedValue).eq(value)
Consistent(namedValue, value) == StrictEq(namedValue, value)

\* the iteration throws: both values are non-null and differ
Clash(props, param, n) ==
    /\ OrNull(NamedValue(props, param)).t # "null"
    /\ PositionalValue(props, n).t # "null"
    /\ ~ Consistent(OrNull(NamedValue(props, param)), PositionalValue(props, n))

\* mutant: the named value is never taken
ResolvedValue_PositionalOnly(props, param, n) == PositionalValue(props, n)

\* the value pushed for the parameter
ResolvedValue(props, param, n) ==
    IF OrNull(NamedValue(props, param)).t # "null" /\ PositionalValue(props, n).t = "null"
    THEN NamedValue(props, param)
    ELSE PositionalValue(props, n)

Throw(status) ==
    /\ bpc' = "done"
    /\ built' = [status |-> status]
    /\ UNCHANGED <<fragment, properties, index, namedCount, indexed, nonIndexed,
                   hasNonIndexed, matcherVars, auxVars>>

RangeError ==
    /\ bpc = "start"
    /\ properties.isArray
    /\ ~ RangeOk(ArrayCount(properties), Len(fragment.inputs))
    /\ Throw("RangeError")

CountNamed ==
    /\ bpc = "start"
    /\ properties.isArray => RangeOk(ArrayCount(properties), Len(fragment.inputs))
    /\ namedCount' = NamedKeyCount(properties)
    /\ bpc' = IF NamedKeyCount(properties) > 0 \/ ArrayCount(properties) > 0
              THEN "loop" ELSE "return"
    /\ UNCHANGED <<fragment, properties, index, indexed, nonIndexed, hasNonIndexed,
                   built, matcherVars, auxVars>>

\* mutant: the value is pushed to the topic arguments whatever the parameter
IndexedEntry_Unsplit(param, value) == value

\* the entry pushed to `indexed` for `param`
IndexedEntry(param, value) == IF param.indexed THEN value ELSE Null

\* the entry pushed to `nonIndexed` for `param`
NonIndexedEntry(param, value) == IF param.indexed THEN Null ELSE value

\* mutant: any non-indexed parameter makes the filter carry nonIndexed
SetsNonIndexed_Always(param, value) == ~ param.indexed

\* whether pushing `value` for `param` sets hasNonIndexed
SetsNonIndexed(param, value) == ~ param.indexed /\ value.t # "null"

BuildParam ==
    /\ bpc = "loop"
    /\ index < Len(fragment.inputs)
    /\ LET param == fragment.inputs[index + 1]
           value == ResolvedValue(properties, param, index)
       IN  /\ ~ Clash(properties, param, index)
           /\ namedCount' = IF NamedValue(properties, param).t = "undefined"
                             THEN namedCount ELSE namedCount - 1
           /\ indexed' = Append(indexed, IndexedEntry(param, value))
           /\ nonIndexed' = Append(nonIndexed, NonIndexedEntry(param, value))
           /\ hasNonIndexed' = (hasNonIndexed \/ SetsNonIndexed(param, value))
    /\ index' = index + 1
    /\ UNCHANGED <<fragment, properties, bpc, built, matcherVars, auxVars>>

Inconsistent ==
    /\ bpc = "loop"
    /\ index < Len(fragment.inputs)
    /\ Clash(properties, fragment.inputs[index + 1], index)
    /\ Throw("ConsistencyError")

UnknownField ==
    /\ bpc = "loop"
    /\ index >= Len(fragment.inputs)
    /\ namedCount # 0
    /\ Throw("UnknownFieldError")

LoopDone ==
    /\ bpc = "loop"
    /\ index >= Len(fragment.inputs)
    /\ namedCount = 0
    /\ bpc' = "return"
    /\ UNCHANGED <<fragment, properties, index, namedCount, indexed, nonIndexed,
                   hasNonIndexed, built, matcherVars, auxVars>>

ReturnArgs ==
    /\ bpc = "return"
    /\ bpc' = "done"
    /\ built' = [status |-> "ok",
                 args |-> indexed,
                 nonIndexed |-> IF hasNonIndexed THEN Arr(nonIndexed) ELSE Undefined]
    /\ UNCHANGED <<fragment, properties, index, namedCount, indexed, nonIndexed,
                   hasNonIndexed, matcherVars, auxVars>>

NextBuild ==
    \/ RangeError
    \/ CountNamed
    \/ BuildParam
    \/ Inconsistent
    \/ UnknownField
    \/ LoopDone
    \/ ReturnArgs

SpecBuild == InitBuild /\ [][NextBuild]_vars

----------------------------------------------------------------------------
\* The same filter built twice: from a positional spec with one entry per
\* parameter, then from the named spec that gives each parameter the same value

\* every parameter of the signature has a name
AllNamed(frag) == \A k \in DOMAIN frag.inputs : frag.inputs[k].name # ""

\* the named spec equivalent to the positional spec `props`
NamedEquivalent(frag, props) ==
    [isArray |-> FALSE, items |-> <<>>,
     named |-> [key \in {frag.inputs[k].name : k \in DOMAIN frag.inputs} |->
                   props.items[CHOOSE k \in DOMAIN frag.inputs : frag.inputs[k].name = key]]]

\* the first build returned: build again from the equivalent named spec
Rebuild ==
    /\ bpc = "done"
    /\ built.status = "ok"
    /\ prior.status = "none"
    /\ AllNamed(fragment)
    /\ properties.isArray
    /\ DOMAIN properties.named = {}
    /\ Len(properties.items) = Len(fragment.inputs)
    /\ prior' = [status |-> "ok", properties |-> properties, built |-> built]
    /\ properties' = NamedEquivalent(fragment, properties)
    /\ bpc' = "start"
    /\ index' = 0
    /\ namedCount' = 0
    /\ indexed' = <<>>
    /\ nonIndexed' = <<>>
    /\ hasNonIndexed' = FALSE
    /\ built' = [status |-> "none"]
    /\ UNCHANGED <<fragment, matcherVars, valueVars, factoryVars, lateVars>>

NextRoundTrip ==
    \/ RangeError
    \/ CountNamed
    \/ BuildParam
    \/ Inconsistent
    \/ UnknownField
    \/ LoopDone
    \/ ReturnArgs
    \/ Rebuild

SpecRoundTrip == InitBuild /\ [][NextRoundTrip]_vars

----------------------------------------------------------------------------
\* The value matcher on pairs of values

MaxWidth == 2

MaxNest == 1

Leaves == {Num(1), Num(2), Null}

Entries == {Num(1), Null}

ObjectKeys == {"0", "length"}

\* primitives, null, and the sequences and objects whose entries are leaves
FlatValues ==
    Leaves
    \cup {Arr(q) : q \in SeqsUpTo(Entries, MaxWidth)}
    \cup {Obj(f) : f \in UNION {[D -> Entries] : D \in SUBSET ObjectKeys}}

\* the values of S, and each of them inside a sequence and inside an object
RECURSIVE Nested(_, _)
Nested(S, d) ==
    IF d = 0 THEN S
    ELSE Nested(S \cup {Arr(<<x>>) : x \in S} \cup {Obj([key \in {"a"} |-> x]) : x \in S},
                d - 1)

Values == Nested(FlatValues, MaxNest)

InitValue ==
    /\ WrapperIdle
    /\ TimerIdle
    /\ TopicsIdle
    /\ DecoderIdle
    /\ ListenerIdle
    /\ MatcherIdle
    /\ BuilderIdle
    /\ FactoryIdle
    /\ expectedValue \in Values
    /\ actualValue \in Values
    /\ vpc = "start"
    /\ verdict = "none"
    /\ propsVerdict = "none"

\* isDeepEqual(expectedValue, actualValue)
CallIsDeepEqual ==
    /\ vpc = "start"
    /\ verdict' = isDeepEqual(expectedValue, actualValue)
    /\ vpc' = "deep"
    /\ UNCHANGED <<expectedValue, actualValue, propsVerdict, notValue>>

\* _matchProperties([actualValue], [expectedValue])
CallMatchProperties ==
    /\ vpc = "deep"
    /\ propsVerdict' = _matchProperties(<<actualValue>>, <<expectedValue>>)
    /\ vpc' = "done"
    /\ UNCHANGED <<expectedValue, actualValue, verdict, notValue>>

NextValue ==
    \/ CallIsDeepEqual
    \/ CallMatchProperties

SpecValue == InitValue /\ [][NextValue]_vars

----------------------------------------------------------------------------
\* The event factory of event Note on one emitter

\* an event with an indexed parameter of dynamic type
NoteFragment ==
    [name |-> "Note", id |-> "Note(string,uint256)",
     inputs |-> <<[name |-> "tag", indexed |-> TRUE, dynamic |-> TRUE],
                  [name |-> "value", indexed |-> FALSE, dynamic |-> FALSE]>>]

\* emitter.address
EmitterAddress == "0xA"

\* the topic stored for a string: its hash
Hash(text) ==
    CASE text = "hello" -> "#hello"
      [] text = "bye" -> "#bye"

Tags == {"hello", "bye"}

\* the log entry of Note(tag, n) emitted at addr; undecoded lists the keys
\* that parser.decodeEventLog leaves undefined in the Result of this entry
NoteLog(addr, tag, n, undecoded) ==
    [address |-> addr, topics |-> <<NoteFragment.id, Hash(tag)>>, data |-> <<Num(n)>>,
     undecoded |-> undecoded]

EntryKinds ==
    {NoteLog("0xa", "hello", 5, {}),
     NoteLog("0xa", "bye", 6, {}),
     NoteLog("0xa", "hello", 5, {"value"}),
     NoteLog("0xa", "hello", 5, {"1"}),
     NoteLog("0xb", "hello", 5, {}),
     [address |-> "0xa", topics |-> <<StoreFragment.id>>, data |-> <<Num(5)>>,
      undecoded |-> {}]}

\* the expected values given to expectOne: absent, tuple, object and mixed forms
ExpectedKinds ==
    {Undefined, Null}
    \cup {[isArray |-> TRUE, items |-> q, named |-> <<>>] :
             q \in {<<>>, <<Null, Num(5)>>, <<Null, Num(6)>>, <<Str("hello")>>, <<Undefined, Num(5)>>}}
    \cup {[isArray |-> FALSE, items |-> <<>>, named |-> [key \in {k} |-> x]] :
             k \in {"tag", "value", "bogus"}, x \in {Str("hello"), Num(5), Null}}
    \cup {[isArray |-> TRUE, items |-> <<Null, Num(5)>>, named |-> [key \in {"value"} |-> x]] :
             x \in {Num(5), Num(6)}}

\* a mapping callback: (args) => args.length
CountFn == [t |-> "function", name |-> "count"]

\* fn(args)
Apply(f, args) == Num(Len(args))

\* parser.decodeEventLog(fragment, entry.data, entry.topics) as a Result:
\* the values by position and, for the named parameters, by name
ParsedResult(frag, entry) ==
    LET decoded == decodeEventLog(frag, entry.data, entry.topics)
    IN  [items |-> [k \in DOMAIN decoded |->
                       IF IndexKey(k - 1) \in entry.undecoded THEN Undefined ELSE decoded[k]],
         named |-> [key \in ({frag.inputs[k].name : k \in DOMAIN frag.inputs}
                                \ ({""} \cup entry.undecoded)) |->
                       decoded[CHOOSE k \in DOMAIN frag.inputs : frag.inputs[k].name = key]]]

\* args[index]
ArgAt(args, n) == At(args.items, n)

\* args[propName]
ArgNamed(args, key) == IF key \in DOMAIN args.named THEN args.named[key] ELSE Undefined

\* mutant: the emitter of the entry is not compared
IsEmitted_AnyAddress(entry, id, addr) == entry.topics[1] = id

\* entry.topics[0] === id && entry.address.toUpperCase() === addr
IsEmitted(entry, id, addr) ==
    entry.topics[1] = id /\ ToUpperCase(entry.address) = addr

\* the Results findEventArgs pushes for the first n entries
RECURSIVE FoundIn(_, _)
FoundIn(logs, n) ==
    IF n = 0 THEN <<>>
    ELSE IF IsEmitted(logs[n], NoteFragment.id, ToUpperCase(EmitterAddress))
         THEN Append(FoundIn(logs, n - 1), ParsedResult(NoteFragment, logs[n]))
         ELSE FoundIn(logs, n - 1)

\* mutant: only the positional expected values are compared
MismatchedProperties_ByPosition(expected, args) ==
    /\ expected.isArray
    /\ \E n \in 0..(Len(expected.items) - 1) :
          /\ OrNull(At(expected.items, n)).t # "null"
          /\ ~ StrictEq(ArgAt(args, n), At(expected.items, n))

\* _verifyByProperties(expected, name, args) throws: an expected value that is
\* not null differs from the decoded one, by position or by name
MismatchedProperties(expected, args) ==
    \/ /\ expected.isArray
       /\ \E n \in 0..(Len(expected.items) - 1) :
             /\ OrNull(At(expected.items, n)).t # "null"
             /\ ~ StrictEq(ArgAt(args, n), At(expected.items, n))
    \/ \E key \in DOMAIN expected.named :
          /\ OrNull(expected.named[key]).t # "null"
          /\ ~ StrictEq(ArgNamed(args, key), expected.named[key])

\* _verifyByFragment(fragment, name, args) throws: a parameter is undefined
\* by position or, when it has a name, by name
MissingProperty(frag, args) ==
    \E n \in 0..(Len(frag.inputs) - 1) :
        \/ ArgAt(args, n).t = "undefined"
        \/ /\ frag.inputs[n + 1].name # ""
           /\ ArgNamed(args, frag.inputs[n + 1].name).t = "undefined"

\* verifyArgs(args, expected): the failure raised, or "ok"
verifyArgs(args, expected) ==
    IF expected \notin {Null, Undefined} /\ MismatchedProperties(expected, args)
    THEN "Mismatch"
    ELSE IF MissingProperty(NoteFragment, args) THEN "MissingField"
    ELSE "ok"

\* mutant: the Results are verified before fn is applied
Unverified_Never(f) == FALSE

\* all hands the Results to fn without verifyArgs
Unverified(f) == f.t # "undefined"

\* the sources of waitAll: a receipt or a transaction whose wait() gives the
\* receipt, given as a value or as a promise, or a promise that rejects
Sources ==
    {[kind |-> k, logs |-> q, status |-> c] :
        k \in {"receipt", "transaction"}, q \in SeqsUpTo(EntryKinds, MaxLogs), c \in {0, 1}}
    \cup {[kind |-> "rejected"]}

\* mutant: the status of the receipt is not looked at
IsSuccess_Unchecked(status) == TRUE

\* expect(receipt.status).equals(SUCCESS)
IsSuccess(status) == status = 1

\* the receipt that contractReceiptOf(source) resolves to
ReceiptOf(src) == [logs |-> src.logs, status |-> src.status]

InitFactory ==
    /\ WrapperIdle
    /\ TimerIdle
    /\ TopicsIdle
    /\ DecoderIdle
    /\ ListenerIdle
    /\ MatcherIdle
    /\ BuilderIdle
    /\ ValueIdle
    /\ \/ /\ call = "expectOne" /\ expectedIn \in ExpectedKinds /\ fn = Undefined
          /\ receipt \in SeqsUpTo(EntryKinds, MaxLogs)
          /\ source = [kind |-> "none"]
          /\ fpc = "start"
       \/ /\ call = "all" /\ expectedIn = Undefined /\ fn \in {Undefined, CountFn}
          /\ receipt \in SeqsUpTo(EntryKinds, MaxLogs)
          /\ source = [kind |-> "none"]
          /\ fpc = "start"
       \/ /\ call = "waitAll" /\ expectedIn = Undefined /\ fn \in {Undefined, CountFn}
          /\ receipt = <<>>
          /\ source \in Sources
          /\ fpc = "await"
    /\ found = <<>>
    /\ cursor = 0
    /\ ret = [status |-> "none"]
    /\ fnArgs = [called |-> FALSE]

Fail(status) ==
    /\ fpc' = "done"
    /\ ret' = [status |-> status]
    /\ UNCHANGED <<receipt, expectedIn, fn, call, cursor, source, fnArgs,
                   notFactory>>

\* waitAll: contractReceiptOf(source) resolves to the receipt
Resolve ==
    /\ fpc = "await"
    /\ source.kind \in {"receipt", "transaction"}
    /\ receipt' = source.logs
    /\ fpc' = "resolved"
    /\ UNCHANGED <<expectedIn, fn, call, found, cursor, ret, source, fnArgs, notFactory>>

\* waitAll: the source rejects
Rejects ==
    /\ fpc = "await"
    /\ source.kind = "rejected"
    /\ found' = found
    /\ Fail("Rejected")

\* successfulTransaction: expect(receipt.status).equals(SUCCESS) fails
NotSuccessful ==
    /\ fpc = "resolved"
    /\ ~ IsSuccess(source.status)
    /\ found' = found
    /\ Fail("NotSuccessful")

\* successfulTransaction returns the receipt, waitAll calls this.all(receipt, fn)
Successful ==
    /\ fpc = "resolved"
    /\ IsSuccess(source.status)
    /\ fpc' = "start"
    /\ UNCHANGED <<receipt, expectedIn, fn, call, found, cursor, ret, source, fnArgs,
                   notFactory>>

\* mutant: the number of Results found is not looked at
IsFound_Unchecked(list) == TRUE

\* expect(found.length).is.greaterThan(0)
IsFound(list) == Len(list) > 0

\* findEventArgs: no entry of this event and emitter
FindNone ==
    /\ fpc = "start"
    /\ ~ IsFound(FoundIn(receipt, Len(receipt)))
    /\ found' = <<>>
    /\ Fail("NotFound")

\* findEventArgs returns the Results of the entries of this event and emitter
FindSome ==
    /\ fpc = "start"
    /\ IsFound(FoundIn(receipt, Len(receipt)))
    /\ found' = FoundIn(receipt, Len(receipt))
    /\ fpc' = "found"
    /\ UNCHANGED <<receipt, expectedIn, fn, call, cursor, ret, source, fnArgs,
                   notFactory>>

\* expectOne: expect(args.length).equals(1) fails
NotSingle ==
    /\ fpc = "found"
    /\ call = "expectOne"
    /\ Len(found) # 1
    /\ found' = found
    /\ Fail("NotSingle")

\* expectOne: verifyArgs(args[0], expected) throws
ExpectOneFails ==
    /\ fpc = "found"
    /\ call = "expectOne"
    /\ Len(found) = 1
    /\ verifyArgs(found[1], expectedIn) # "ok"
    /\ found' = found
    /\ Fail(verifyArgs(found[1], expectedIn))

\* expectOne returns the verified Result
ExpectOneReturns ==
    /\ fpc = "found"
    /\ call = "expectOne"
    /\ Len(found) = 1
    /\ verifyArgs(found[1], expectedIn) = "ok"
    /\ fpc' = "done"
    /\ ret' = [status |-> "ok", value |-> found[1]]
    /\ UNCHANGED <<receipt, expectedIn, fn, call, found, cursor, source, fnArgs,
                   notFactory>>

\* all: fn is given, return fn(args)
AllMapped ==
    /\ fpc = "found"
    /\ call \in {"all", "waitAll"}
    /\ Unverified(fn)
    /\ fpc' = "done"
    /\ fnArgs' = [called |-> TRUE, args |-> found]
    /\ ret' = [status |-> "ok",
               value |-> IF call = "waitAll" THEN ReceiptOf(source) ELSE Apply(fn, found)]
    /\ UNCHANGED <<receipt, expectedIn, fn, call, found, cursor, source, notFactory>>

\* all: no fn, start args.forEach
AllVerify ==
    /\ fpc = "found"
    /\ call \in {"all", "waitAll"}
    /\ ~ Unverified(fn)
    /\ fpc' = "verify"
    /\ cursor' = 1
    /\ UNCHANGED <<receipt, expectedIn, fn, call, found, ret, source, fnArgs,
                   notFactory>>

\* all: verifyArgs(arg) passes for one Result
VerifyNext ==
    /\ fpc = "verify"
    /\ cursor <= Len(found)
    /\ verifyArgs(found[cursor], Undefined) = "ok"
    /\ cursor' = cursor + 1
    /\ UNCHANGED <<receipt, expectedIn, fn, call, fpc, found, ret, source, fnArgs,
                   notFactory>>

\* all: verifyArgs(arg) throws
VerifyFails ==
    /\ fpc = "verify"
    /\ cursor <= Len(found)
    /\ verifyArgs(found[cursor], Undefined) # "ok"
    /\ fpc' = "done"
    /\ ret' = [status |-> verifyArgs(found[cursor], Undefined)]
    /\ UNCHANGED <<receipt, expectedIn, fn, call, found, cursor, source, fnArgs,
                   notFactory>>

\* all returns the Results
AllReturns ==
    /\ fpc = "verify"
    /\ cursor > Len(found)
    /\ fpc' = "done"
    /\ ret' = [status |-> "ok",
               value |-> IF call = "waitAll" THEN ReceiptOf(source) ELSE found]
    /\ UNCHANGED <<receipt, expectedIn, fn, call, found, cursor, source, fnArgs,
                   notFactory>>

NextFactory ==
    \/ Resolve
    \/ Rejects
    \/ NotSuccessful
    \/ Successful
    \/ FindNone
    \/ FindSome
    \/ NotSingle
    \/ ExpectOneFails
    \/ ExpectOneReturns
    \/ AllMapped
    \/ AllVerify
    \/ VerifyNext
    \/ VerifyFails
    \/ AllReturns

SpecFactory == InitFactory /\ [][NextFactory]_vars

----------------------------------------------------------------------------
\* The listener made by newListener for event Note

MaxPushes == 3

notListener == <<matcherVars, builderVars, prior, valueVars, factoryVars, decoderVars,
                 topicVars, priorRun, timerVars, wrapperVars>>

\* an emission delivered by contract.on: the arguments of the handler end
\* with the event, which has a block number and the decoded args
Emission(blockNumber, args) ==
    [details |-> TRUE, blockNumber |-> blockNumber, args |-> args]

\* an emission delivered with no arguments at all
BareEmission == [details |-> FALSE]

EmissionKinds ==
    {BareEmission,
     Emission(Undefined, ParsedResult(NoteFragment, NoteLog("0xa", "hello", 5, {}))),
     Emission(Num(7), Undefined)}
    \cup {Emission(Num(7), ParsedResult(NoteFragment, e)) :
             e \in {NoteLog("0xa", "hello", 5, {}), NoteLog("0xa", "bye", 6, {}),
                    NoteLog("0xa", "hello", 5, {"value"}), NoteLog("0xa", "hello", 5, {"1"})}}

\* event.args ?? {}
ArgsOf(event) ==
    IF event.args = Undefined THEN [items |-> <<>>, named |-> <<>>] ELSE event.args

\* mutant: the block number of the event is not looked at
HasBlockNumber_Unchecked(event) == TRUE

\* expect(event.blockNumber).is.not.undefined
HasBlockNumber(event) == event.blockNumber # Undefined

InitListener ==
    /\ WrapperIdle
    /\ TimerIdle
    /\ TopicsIdle
    /\ DecoderIdle
    /\ MatcherIdle
    /\ BuilderIdle
    /\ ValueIdle
    /\ FactoryIdle
    /\ ListenerIdle

\* newListener: the EventListener subscribes with contract.on
Listen ==
    /\ lpc = "idle"
    /\ lpc' = "listening"
    /\ UNCHANGED <<events, pushes, lastPush, notListener>>

\* the handler throws: nothing is pushed to _events
Raise(e, failure) ==
    /\ pushes' = Append(pushes, e)
    /\ lastPush' = failure
    /\ UNCHANGED <<lpc, events, notListener>>

\* expect(args.length, 'The event details are missing') fails
PushWithoutDetails ==
    /\ lpc = "listening"
    /\ Len(pushes) < MaxPushes
    /\ \E e \in EmissionKinds :
          /\ ~ e.details
          /\ Raise(e, "NoDetails")

\* expect(event.blockNumber, 'The event should have a block number') fails
PushWithoutBlock ==
    /\ lpc = "listening"
    /\ Len(pushes) < MaxPushes
    /\ \E e \in EmissionKinds :
          /\ e.details
          /\ ~ HasBlockNumber(e)
          /\ Raise(e, "NoBlockNumber")

\* convert(event): _verifyByFragment throws
PushUnverified ==
    /\ lpc = "listening"
    /\ Len(pushes) < MaxPushes
    /\ \E e \in EmissionKinds :
          /\ e.details
          /\ HasBlockNumber(e)
          /\ MissingProperty(NoteFragment, ArgsOf(e))
          /\ Raise(e, "MissingField")

\* this._events.push(convert(event))
PushAccepted ==
    /\ lpc = "listening"
    /\ Len(pushes) < MaxPushes
    /\ \E e \in EmissionKinds :
          /\ e.details
          /\ HasBlockNumber(e)
          /\ ~ MissingProperty(NoteFragment, ArgsOf(e))
          /\ events' = Append(events, ArgsOf(e))
          /\ pushes' = Append(pushes, e)
          /\ lastPush' = "ok"
          /\ UNCHANGED <<lpc, notListener>>

NextListener ==
    \/ Listen
    \/ PushWithoutDetails
    \/ PushWithoutBlock
    \/ PushUnverified
    \/ PushAccepted

SpecListener == InitListener /\ [][NextListener]_vars

----------------------------------------------------------------------------
\* filterEventFromLog: the single-filter decoder

notDecoder == <<matcherVars, builderVars, prior, valueVars, factoryVars, listenerVars,
                topicVars, priorRun, timerVars, wrapperVars>>

\* the Store records of the matcher, and a record of another event
DecoderLogKinds ==
    LogKinds
    \cup {[address |-> "0xa", topics |-> <<NoteFragment.id, Hash("hello")>>,
           data |-> <<Num(5)>>]}

InitDecode ==
    /\ WrapperIdle
    /\ TimerIdle
    /\ TopicsIdle
    /\ MatcherIdle
    /\ BuilderIdle
    /\ ValueIdle
    /\ FactoryIdle
    /\ ListenerIdle
    /\ logEntries \in SeqsUpTo(DecoderLogKinds, MaxLogs)
    /\ logFilter \in FilterKinds
    /\ dpc = "start"
    /\ decoders = {}
    /\ decodedLogs = [status |-> "none"]

\* if (filter.address && filter.topics) and typeof filter.topics[0] === 'string'
Registers(f) ==
    /\ f.address.t = "string"
    /\ f.address.v # ""
    /\ Len(f.topics) > 0
    /\ f.topics[1].t = "string"

\* filtersToDecoders([filter]): the filter is entered under its address in
\* upper case and its topic 0
FiltersToDecoders ==
    /\ dpc = "start"
    /\ decoders' = IF Registers(logFilter)
                    THEN {[emitter |-> ToUpperCase(logFilter.address.v),
                           eventType |-> logFilter.topics[1].v,
                           decodeEventData |-> logFilter]}
                    ELSE {}
    /\ dpc' = "decode"
    /\ UNCHANGED <<logEntries, logFilter, decodedLogs, notDecoder>>

\* decoders.get(emitter)?.get(topic) is defined
HasDecoder(entry) ==
    \E d \in decoders :
        d.emitter = ToUpperCase(entry.address) /\ d.eventType = entry.topics[1]

\* decodeFn(entry) of the decoder found for the entry
Decode(entry) ==
    LET d == CHOOSE d \in decoders :
                 d.emitter = ToUpperCase(entry.address) /\ d.eventType = entry.topics[1]
    IN  decodeEventData(d.decodeEventData, entry)

\* the Results decodeEventLogs pushes for the first n entries
RECURSIVE DecodedIn(_, _)
DecodedIn(entries, n) ==
    IF n = 0 THEN <<>>
    ELSE IF HasDecoder(entries[n])
         THEN Append(DecodedIn(entries, n - 1), Decode(entries[n]))
         ELSE DecodedIn(entries, n - 1)

\* decodeEventLogs(logs, lookup) returns found
DecodeEventLogs ==
    /\ dpc = "decode"
    /\ decodedLogs' = [status |-> "ok", value |-> DecodedIn(logEntries, Len(logEntries))]
    /\ dpc' = "done"
    /\ UNCHANGED <<logEntries, logFilter, decoders, notDecoder>>

NextDecode ==
    \/ FiltersToDecoders
    \/ DecodeEventLogs

SpecDecode == InitDecode /\ [][NextDecode]_vars

----------------------------------------------------------------------------
\* _matchTopics on records and filters of every shape

MaxTopics == 2

notTopics == <<matcherVars, builderVars, prior, valueVars, factoryVars, listenerVars,
               decoderVars, priorRun, timerVars, wrapperVars>>

TopicValues == {"T1", "T2"}

TopicLogs ==
    {[address |-> a, topics |-> q] :
        a \in {"0xa", "0xA", "0xb"}, q \in SeqsUpTo(TopicValues, MaxTopics)}

TopicFilters ==
    {[address |-> a, topics |-> q] :
        a \in {Undefined, Str("0xA"), Str("0xb")},
        q \in SeqsUpTo({Null} \cup {Str(x) : x \in TopicValues}, MaxTopics)}

InitTopics ==
    /\ WrapperIdle
    /\ TimerIdle
    /\ MatcherIdle
    /\ BuilderIdle
    /\ ValueIdle
    /\ FactoryIdle
    /\ ListenerIdle
    /\ DecoderIdle
    /\ actualLog \in TopicLogs
    /\ expectedFilter \in TopicFilters
    /\ tpc = "start"
    /\ topicsVerdict = "none"
    /\ priorRun = [status |-> "none"]

\* _matchTopics(actual, expected)
CallMatchTopics ==
    /\ tpc = "start"
    /\ topicsVerdict' = Returns(_matchTopics(actualLog, expectedFilter))
    /\ tpc' = "done"
    /\ UNCHANGED <<actualLog, expectedFilter, notTopics>>

NextTopics == CallMatchTopics

SpecTopics == InitTopics /\ [][NextTopics]_vars

----------------------------------------------------------------------------
\* occurrenceAtMost(earlyStop, maximumDelayMs) for every delay and every
\* behaviour of earlyStop

MaxDelayMs == 250

PAUSE_TIME_INCREMENT_MS == 100

notTimer == <<matcherVars, builderVars, prior, valueVars, factoryVars, listenerVars,
              decoderVars, topicVars, priorRun, wrapperVars>>

InitTimer ==
    /\ WrapperIdle
    /\ MatcherIdle
    /\ BuilderIdle
    /\ ValueIdle
    /\ FactoryIdle
    /\ ListenerIdle
    /\ DecoderIdle
    /\ TopicsIdle
    /\ maximumDelayMs \in 0..MaxDelayMs
    /\ passedMs = 0
    /\ opc = "test"
    /\ sleptMs = 0
    /\ stopped = FALSE

\* while (!earlyStop() ...): earlyStop() returns true
StopsEarly ==
    /\ opc = "test"
    /\ stopped' = TRUE
    /\ opc' = "done"
    /\ UNCHANGED <<maximumDelayMs, passedMs, sleptMs, notTimer>>

\* earlyStop() returns false and passedMs < maximumDelayMs fails
TimedOut ==
    /\ opc = "test"
    /\ ~ (passedMs < maximumDelayMs)
    /\ opc' = "done"
    /\ UNCHANGED <<maximumDelayMs, passedMs, sleptMs, stopped, notTimer>>

\* earlyStop() returns false and passedMs < maximumDelayMs: sleep(100) starts
Pause ==
    /\ opc = "test"
    /\ passedMs < maximumDelayMs
    /\ sleptMs' = sleptMs + PAUSE_TIME_INCREMENT_MS
    /\ opc' = "sleeping"
    /\ UNCHANGED <<maximumDelayMs, passedMs, stopped, notTimer>>

\* the sleep is over: passedMs += PAUSE_TIME_INCREMENT_MS
Wake ==
    /\ opc = "sleeping"
    /\ passedMs' = passedMs + PAUSE_TIME_INCREMENT_MS
    /\ opc' = "test"
    /\ UNCHANGED <<maximumDelayMs, sleptMs, stopped, notTimer>>

NextTimer ==
    \/ StopsEarly
    \/ TimedOut
    \/ Pause
    \/ Wake

SpecTimer == InitTimer /\ [][NextTimer]_vars

----------------------------------------------------------------------------
\* wrapImportedFactories(imports, defaultSigner): deploy, attach and the
\* functions made by deployWithDelegate and attachWithDelegate

notWrapper == <<matcherVars, builderVars, prior, valueVars, factoryVars, listenerVars,
                decoderVars, topicVars, priorRun, timerVars>>

\* a Signer, a promise that resolves to a Signer, a promise that rejects
ASigner(id) == [t |-> "signer", id |-> id]

Resolving(id) == [t |-> "promise", settles |-> "resolved", value |-> ASigner(id)]

Rejecting == [t |-> "promise", settles |-> "rejected"]

\* a ?? b
Coalesce(a, b) == IF a \in {Null, Undefined} THEN b ELSE a

\* if (v), for v a signer, a promise, null or undefined
Truthy(v) == v \notin {Null, Undefined}

\* Signer.isSigner(v)
isSigner(v) == v.t = "signer"

Throws(message) == [t |-> "throw", message |-> message]

\* mutant: the default signer is looked at first
findSignerAsync_DefaultFirst(s1, s2) ==
    LET chosen == Coalesce(Coalesce(defaultSigner, s2), s1)
    IN  IF Truthy(chosen) THEN chosen ELSE Throws("Signer is not available")

\* findSignerAsync(s1, s2)
findSignerAsync(s1, s2) ==
    LET chosen == Coalesce(Coalesce(s1, s2), defaultSigner)
    IN  IF Truthy(chosen) THEN chosen ELSE Throws("Signer is not available")

\* findSigner(s1)
findSigner(s1) ==
    IF Truthy(s1) THEN s1
    ELSE IF isSigner(defaultSigner) THEN defaultSigner
    ELSE Throws("Signer is not available or needs to be resolved")

\* the arguments of findSignerAsync: deploy passes its signer only, the
\* functions of the ...WithDelegate wrappers pass signer2 and signer
SignerAsync ==
    IF method = "deploy" THEN findSignerAsync(callSigner, Undefined)
    ELSE findSignerAsync(callSigner, delegateSigner)

Asynchronous == {"deploy", "deployWithDelegate", "attachWithDelegate"}

\* the signers a call can be given, and those a wrapper can be given
CallSigners == {Undefined, Null, ASigner("call")}

WrapperSigners(id) == {Undefined, Null, ASigner(id), Resolving(id), Rejecting}

InitWrapper ==
    /\ MatcherIdle
    /\ BuilderIdle
    /\ ValueIdle
    /\ FactoryIdle
    /\ ListenerIdle
    /\ DecoderIdle
    /\ TopicsIdle
    /\ TimerIdle
    /\ method \in {"deploy", "deployWithDelegate", "attach", "attachWithDelegate"}
    /\ callSigner \in CallSigners
    /\ delegateSigner \in IF method \in {"deployWithDelegate", "attachWithDelegate"}
                           THEN WrapperSigners("delegate") ELSE {Undefined}
    /\ defaultSigner \in WrapperSigners("default")
    /\ factoryClass \in {Undefined, Str("Token__factory")}
    /\ wpc = "start"
    /\ awaited = Undefined
    /\ factory = [status |-> "none"]
    /\ wrapped = [status |-> "none"]

Ends(status) ==
    /\ wpc' = "done"
    /\ wrapped' = [status |-> status]
    /\ UNCHANGED <<method, callSigner, delegateSigner, defaultSigner, factoryClass,
                   awaited, factory, notWrapper>>

\* factoryClassByName: if (!factoryClass) throw
FactoryMissing ==
    /\ wpc = "start"
    /\ ~ Truthy(factoryClass)
    /\ Ends("Factory is missing")

\* deploy and the delegate functions: findSignerAsync throws
NoSignerAsync ==
    /\ wpc = "start"
    /\ Truthy(factoryClass)
    /\ method \in Asynchronous
    /\ SignerAsync.t = "throw"
    /\ Ends(SignerAsync.message)

\* deploy and the delegate functions: findSignerAsync returns, await begins
FoundSignerAsync ==
    /\ wpc = "start"
    /\ Truthy(factoryClass)
    /\ method \in Asynchronous
    /\ SignerAsync.t # "throw"
    /\ awaited' = SignerAsync
    /\ wpc' = "await"
    /\ UNCHANGED <<method, callSigner, delegateSigner, defaultSigner, factoryClass,
                   factory, wrapped, notWrapper>>

\* await of a promise that rejects
AwaitRejects ==
    /\ wpc = "await"
    /\ awaited.t = "promise"
    /\ awaited.settles = "rejected"
    /\ Ends("Rejected")

\* new factoryClass(await ...): a Signer as it is, a promise by its value
Construct ==
    /\ wpc = "await"
    /\ IF awaited.t = "signer" THEN TRUE ELSE awaited.settles = "resolved"
    /\ factory' = [status |-> "constructed",
                   signer |-> IF awaited.t = "signer" THEN awaited ELSE awaited.value]
    /\ wpc' = "constructed"
    /\ UNCHANGED <<method, callSigner, delegateSigner, defaultSigner, factoryClass,
                   awaited, wrapped, notWrapper>>

\* deploy: factory.deploy and contract.deployed(); delegates: delegateFn(factory, ...)
Returned ==
    /\ wpc = "constructed"
    /\ wpc' = "done"
    /\ wrapped' = [status |-> "ok"]
    /\ UNCHANGED <<method, callSigner, delegateSigner, defaultSigner, factoryClass,
                   awaited, factory, notWrapper>>

\* attach: findSigner throws
AttachFails ==
    /\ wpc = "start"
    /\ Truthy(factoryClass)
    /\ method = "attach"
    /\ findSigner(callSigner).t = "throw"
    /\ Ends(findSigner(callSigner).message)

\* attach: return factoryClass.connect(address, this.findSigner(signer))
Attach ==
    /\ wpc = "start"
    /\ Truthy(factoryClass)
    /\ method = "attach"
    /\ findSigner(callSigner).t # "throw"
    /\ factory' = [status |-> "connected", signer |-> findSigner(callSigner)]
    /\ wpc' = "done"
    /\ wrapped' = [status |-> "ok"]
    /\ UNCHANGED <<method, callSigner, delegateSigner, defaultSigner, factoryClass,
                   awaited, notWrapper>>

NextWrapper ==
    \/ FactoryMissing
    \/ NoSignerAsync
    \/ FoundSignerAsync
    \/ AwaitRejects
    \/ Construct
    \/ Returned
    \/ AttachFails
    \/ Attach

SpecWrapper == InitWrapper /\ [][NextWrapper]_vars

----------------------------------------------------------------------------
\* Vocabulary of the properties of the ordered matcher.  Filters are numbered
\* k = 1..N here (filter k is the source's filter k - 1); positions stay 0-based.

NumFilters == Len(expecteds)

NumLogs == Len(actuals)

Min(S) == CHOOSE x \in S : \A y \in S : x <= y

\* filters scanned so far that took a record
Hits == {k \in DOMAIN matchedAt : matchedAt[k] # -1}

\* filters scanned so far that found no eligible record
Misses == {k \in DOMAIN matchedAt : matchedAt[k] = -1}

\* positions consumed when the scan of filter k starts
ConsumedBefore(k) == {matchedAt[m] : m \in {h \in Hits : h < k}}

\* position of the last match made before the scan of filter k, -1 if none
PrevBefore(k) ==
    IF {h \in Hits : h < k} = {} THEN -1
    ELSE matchedAt[CHOOSE h \in Hits : h < k /\ \A g \in Hits : g < k => g <= h]

\* unconsumed records that satisfy filter k when its scan starts
Cands(k) ==
    {q \in 0..(NumLogs - 1) :
        q \notin ConsumedBefore(k) /\ Satisfies(actuals[q + 1], expecteds[k])}

\* the filters whose scan has started
Started == {k \in 1..NumFilters : k <= Len(matchedAt) + 1}

\* the filters can be given satisfying records at strictly increasing positions,
\* filter k and its successors from position `from` on
RECURSIVE CanAssign(_, _)
CanAssign(k, from) ==
    \/ k > NumFilters
    \/ \E q \in from..(NumLogs - 1) :
          /\ Satisfies(actuals[q + 1], expecteds[k])
          /\ CanAssign(k + 1, q + 1)

Assignable == CanAssign(1, 0)

\* the returned lists are the decoded records and emitters at the matched positions
ResultsAtPositions ==
    /\ Len(result) = Cardinality(Hits)
    /\ Len(resultAddr) = Len(result)
    /\ Len(matchedAt) = NumFilters /\ Misses = {} =>
          \A k \in 1..NumFilters :
              /\ result[k] = decodeEventData(expecteds[k], actuals[matchedAt[k] + 1])
              /\ resultAddr[k] = actuals[matchedAt[k] + 1].address
              /\ Satisfies(actuals[matchedAt[k] + 1], expecteds[k])

----------------------------------------------------------------------------
\* C1 - Monotonicity: whenever the ordered matcher returns, the positions
\* matched by filters 0..N-1 strictly increase in filter order, with
\* forwardOnly true and false, and the returned results are the records at
\* those positions.
C1_Monotonicity ==
    outcome = "returned" =>
        /\ Len(matchedAt) = NumFilters
        /\ Misses = {}
        /\ \A a, b \in 1..NumFilters : a < b => matchedAt[a] < matchedAt[b]
        /\ ResultsAtPositions

C1_Witness ==
    /\ outcome = "returned"
    /\ ~ forwardOnly
    /\ NumFilters = 2
    /\ matchedAt = <<0, 2>>

\* C2 - Exclusivity: no log record is assigned to two filters; the matched
\* positions are pairwise distinct, also for identical filters, and they are
\* exactly the positions flagged as consumed, one per result.
C2_Exclusivity ==
    /\ \A a, b \in Hits : a # b => matchedAt[a] # matchedAt[b]
    /\ {q \in 0..(NumLogs - 1) : matched[q + 1]} = {matchedAt[k] : k \in Hits}
    /\ Cardinality({q \in 0..(NumLogs - 1) : matched[q + 1]}) = Len(result)

C2_Witness ==
    /\ outcome = "returned"
    /\ NumFilters = 3
    /\ expecteds[1] = expecteds[2]
    /\ expecteds[2] = expecteds[3]
    /\ Cardinality({matchedAt[k] : k \in Hits}) = 3

\* C3 - All-or-nothing: the matcher returns only when every filter was
\* matched, the two returned lists then have one entry per filter (both empty
\* for an empty filter list); when some filter found no eligible record the
\* call ends in a failure, never in a return.
C3_AllOrNothing ==
    /\ outcome = "returned" =>
          /\ Len(result) = NumFilters
          /\ Len(resultAddr) = NumFilters
          /\ Len(matchedAt) = NumFilters
          /\ Misses = {}
    /\ pc = "done" /\ Misses # {} => outcome \in {"NotAllFound", "WrongOrder"}
    /\ pc = "done" /\ NumFilters = 0 =>
          outcome = "returned" /\ result = <<>> /\ resultAddr = <<>>

C3_Witness ==
    /\ outcome = "NotAllFound"
    /\ Len(result) = 2
    /\ NumFilters = 3

C6_ForwardOnly ==
    forwardOnly =>
        /\ outcome # "WrongOrder"
        /\ pc = "scan" => j > prevActualIndex
        /\ \A k \in Hits : matchedAt[k] > PrevBefore(k)
        /\ \A k \in Misses : \A q \in Cands(k) : q <= PrevBefore(k)
        /\ pc = "done" => outcome \in {"returned", "NotAllFound"}

C6_Witness ==
    /\ forwardOnly
    /\ outcome = "NotAllFound"
    /\ \E k \in Misses : \E q \in Cands(k) : q < PrevBefore(k)

\* C7 - with forwardOnly = false, when a filter has satisfying unconsumed
\* records and all of them lie before the record matched by the filter before
\* it, the call fails with the order-violation error (not the not-found
\* error), whose operands are the offending position and the previous match
\* position.
C7_OrderViolation ==
    ~ forwardOnly /\ pc = "done" =>
        \A k \in Started :
            ( /\ k - 1 \in Hits
              /\ Cands(k) # {}
              /\ \A q \in Cands(k) : q < matchedAt[k - 1] )
            => /\ outcome = "WrongOrder"
               /\ i = k - 1
               /\ err = [actual |-> Min(Cands(k)), expected |-> matchedAt[k - 1]]

\* logs [Store(1), Store(2), Store(3)], filters [{value: 3}, {value: 2}]:
\* 'Wrong order of events' with operands 1 and 2
C7_Witness ==
    /\ ~ forwardOnly
    /\ actuals = <<StoreLog("0xa", 1), StoreLog("0xa", 2), StoreLog("0xa", 3)>>
    /\ expecteds = <<StoreFilter(Str("0xA"), Arr(<<Num(3)>>)),
                     StoreFilter(Str("0xA"), Arr(<<Num(2)>>))>>
    /\ outcome = "WrongOrder"
    /\ err = [actual |-> 1, expected |-> 2]

\* C8 (as stated) - the not-found error is raised as soon as a filter's scan
\* ends without an eligible record, so a call in which a filter found no
\* eligible record never fails with an order violation of a later filter.
C8_Original ==
    outcome = "WrongOrder" => Misses = {}

\* C8 (amended) - the not-found failure is deferred: when a filter's scan ends
\* without an eligible record the matcher goes on with the later filters and
\* raises the not-found error only after all filters were scanned, so with
\* forwardOnly = false a later filter can fail first with the order-violation
\* error; the order violation itself is raised at the point of detection.
C8_DeferredNotFound ==
    /\ outcome = "NotAllFound" =>
          /\ i = NumFilters
          /\ Len(matchedAt) = NumFilters
          /\ Misses # {}
          /\ err = [actual |-> Len(result), expected |-> NumFilters]
    /\ pc = "done" /\ Misses # {} => outcome \in {"NotAllFound", "WrongOrder"}
    /\ outcome = "WrongOrder" /\ Misses # {} => ~ forwardOnly
    /\ outcome = "WrongOrder" =>
          /\ i < NumFilters
          /\ Len(matchedAt) = i
          /\ err.actual = j

C8_Witness ==
    /\ outcome = "WrongOrder"
    /\ Misses # {}

----------------------------------------------------------------------------
\* Vocabulary of the properties of the filter builder

NumParams == Len(fragment.inputs)

\* the positional entry of parameter n (0-based), null when absent
Positional(n) ==
    IF properties.isArray /\ n < Len(properties.items) /\ properties.items[n + 1].t # "undefined"
    THEN properties.items[n + 1] ELSE Null

\* the named entry of parameter n (0-based), null when absent
Named(n) ==
    LET name == fragment.inputs[n + 1].name
    IN  IF name \in DOMAIN properties.named /\ properties.named[name].t # "undefined"
        THEN properties.named[name] ELSE Null

\* the value the built filter holds for parameter n (0-based)
BuiltValue(n) ==
    IF fragment.inputs[n + 1].indexed
    THEN built.args[n + 1]
    ELSE IF built.nonIndexed.t = "undefined" THEN Null ELSE built.nonIndexed.v[n + 1]

\* C9 - Consistency: with the range check passed, building fails with the
\* consistency error exactly when some parameter has a positional and a named
\* entry, both non-null, that differ; when they agree, or when only one of
\* the two is non-null, no consistency failure occurs and the built filter
\* holds that value for the parameter.
C9_Consistency ==
    bpc = "done" /\ built.status # "RangeError" =>
        /\ built.status = "ConsistencyError" <=>
              \E n \in 0..(NumParams - 1) :
                  /\ Positional(n).t # "null"
                  /\ Named(n).t # "null"
                  /\ Positional(n) # Named(n)
        /\ built.status = "ok" /\ Len(built.args) > 0 =>
              \A n \in 0..(NumParams - 1) :
                  BuiltValue(n) = IF Positional(n).t # "null" THEN Positional(n) ELSE Named(n)
        \* signature Store(value): [5] with {value: 5} builds, [5] with {value: 6} fails
        /\ ( /\ fragment = StoreFragment
             /\ properties.isArray /\ properties.items = <<Num(5)>>
             /\ DOMAIN properties.named = {"value"}
             /\ properties.named["value"] \in {Num(5), Num(6)} )
           => built.status = IF properties.named["value"] = Num(5)
                             THEN "ok" ELSE "ConsistencyError"

\* signature Store(value): positional [5] with named {value: 5} builds
C9_Witness ==
    /\ fragment = StoreFragment
    /\ properties = [isArray |-> TRUE, items |-> <<Num(5)>>,
                     named |-> [k \in {"value"} |-> Num(5)]]
    /\ built.status = "ok"
    /\ BuiltValue(0) = Num(5)

\* C10 (as stated) - Range check: building fails with the range error exactly
\* when the highest positional index supplied exceeds the parameter count.
C10_Original ==
    bpc = "done" =>
        ( built.status = "RangeError" <=>
            properties.isArray /\ Len(properties.items) - 1 > NumParams )

\* C10 (amended) - Range check: building fails with the range error exactly
\* when the number of positional entries supplied (the highest positional
\* index plus one) exceeds the parameter count, that is when the highest
\* positional index is at least the parameter count; no other spec is
\* rejected by this check.
C10_RangeCheck ==
    bpc = "done" =>
        ( built.status = "RangeError" <=>
            properties.isArray /\ Len(properties.items) - 1 >= NumParams )

C10_Witness ==
    /\ built.status = "RangeError"
    /\ Len(properties.items) - 1 = NumParams

\* the names of the declared parameters
ParamNames == {fragment.inputs[n].name : n \in 1..NumParams}

\* C11 - Unknown-field check: with the range and consistency checks passed,
\* building fails with the unknown-field error exactly when the spec has a
\* named key that is not the name of a declared parameter, whatever value
\* (concrete, null or undefined) the keys hold.
C11_UnknownField ==
    bpc = "done" /\ built.status \notin {"RangeError", "ConsistencyError"} =>
        ( built.status = "UnknownFieldError" <=>
            \E key \in DOMAIN properties.named : key \notin ParamNames )

\* the value the spec supplies for parameter n (0-based), by position or by
\* name, null when neither is given
Received(n) == IF Positional(n).t # "null" THEN Positional(n) ELSE Named(n)

\* C12 - nonIndexed presence: a successfully built filter carries nonIndexed
\* exactly when at least one non-indexed parameter received a concrete
\* (non-null) value; otherwise nonIndexed is undefined, and the matcher then
\* takes every record whose topics match, whatever its decoded values are.
C12_NonIndexedPresence ==
    bpc = "done" /\ built.status = "ok" =>
        /\ built.nonIndexed.t # "undefined" <=>
              \E n \in 0..(NumParams - 1) :
                  ~ fragment.inputs[n + 1].indexed /\ Received(n).t # "null"
        /\ built.nonIndexed.t \in {"undefined", "array"}
        /\ fragment = StoreFragment /\ built.nonIndexed.t = "undefined" =>
              \A log \in LogKinds :
                  /\ Satisfies(log, StoreFilter(Undefined, built.nonIndexed))
                  /\ Satisfies(log, StoreFilter(Str("0xA"), built.nonIndexed))
                        <=> ToUpperCase(log.address) = "0XA"

\* signature Store(value): {value: null} builds a filter without nonIndexed,
\* which takes a Store record of any value
C12_Witness ==
    /\ fragment = StoreFragment
    /\ properties = [isArray |-> FALSE, items |-> <<>>,
                     named |-> [k \in {"value"} |-> Null]]
    /\ built.status = "ok"
    /\ built.nonIndexed = Undefined
    /\ Satisfies(StoreLog("0xa", 1), StoreFilter(Undefined, built.nonIndexed))

\* a spec with at least one positional entry or one named key
NonEmptySpec ==
    (properties.isArray /\ Len(properties.items) > 0) \/ DOMAIN properties.named # {}

\* C13 - Shape: for every non-empty spec that builds successfully, the topic
\* argument list and, when present, nonIndexed each have exactly one entry
\* per declared parameter in declared order; an indexed parameter's value is
\* in the topic arguments with null at its position in nonIndexed, and a
\* non-indexed parameter's value is in nonIndexed with null at its position
\* in the topic arguments.
C13_Shape ==
    bpc = "done" /\ built.status = "ok" /\ NonEmptySpec =>
        /\ Len(built.args) = NumParams
        /\ built.nonIndexed.t # "undefined" => Len(built.nonIndexed.v) = NumParams
        /\ \A n \in 0..(NumParams - 1) :
              IF fragment.inputs[n + 1].indexed
              THEN /\ built.args[n + 1] = Received(n)
                   /\ built.nonIndexed.t # "undefined" => built.nonIndexed.v[n + 1] = Null
              ELSE /\ built.args[n + 1] = Null
                   /\ built.nonIndexed.t # "undefined" =>
                          built.nonIndexed.v[n + 1] = Received(n)

\* signature Transfer(from indexed, value): {from: 5, value: 6} builds the
\* topic arguments [5, null] and nonIndexed [null, 6]
C13_Witness ==
    /\ fragment = TransferFragment
    /\ properties = [isArray |-> FALSE, items |-> <<>>,
                     named |-> [k \in {"from", "value"} |->
                                   IF k = "from" THEN Num(5) ELSE Num(6)]]
    /\ built.status = "ok"
    /\ built.args = <<Num(5), Null>>
    /\ built.nonIndexed = Arr(<<Null, Num(6)>>)

\* C14 - Round trip: for a signature whose parameters are all named, the
\* build from a fully specified positional spec and the build from the
\* equivalent named spec return element-wise equal topic argument lists and
\* equal nonIndexed lists, both present or both absent.
C14_RoundTrip ==
    bpc = "done" /\ prior.status = "ok" =>
        /\ built.status = "ok"
        /\ Len(built.args) = Len(prior.built.args)
        /\ \A k \in DOMAIN built.args : built.args[k] = prior.built.args[k]
        /\ built.nonIndexed.t = prior.built.nonIndexed.t
        /\ built.nonIndexed.t # "undefined" =>
              /\ Len(built.nonIndexed.v) = Len(prior.built.nonIndexed.v)
              /\ \A k \in DOMAIN built.nonIndexed.v :
                    built.nonIndexed.v[k] = prior.built.nonIndexed.v[k]

\* signature Transfer(from indexed, value): [5, 6] and {from: 5, value: 6}
\* both build the topic arguments [5, null] and nonIndexed [null, 6]
C14_Witness ==
    /\ bpc = "done"
    /\ fragment = TransferFragment
    /\ prior.status = "ok"
    /\ prior.properties.items = <<Num(5), Num(6)>>
    /\ DOMAIN properties.named = {"from", "value"}
    /\ built.status = "ok"
    /\ built.args = <<Num(5), Null>>
    /\ built.nonIndexed = Arr(<<Null, Num(6)>>)

\* C15 - No failure modes: for every pair of values built from primitives,
\* null, sequences and objects, the value matcher returns true or false and
\* never raises.
C15_NoFailure ==
    vpc = "done" =>
        /\ verdict \in {"true", "false"}
        /\ propsVerdict \in {"true", "false"}

\* C16 - Shapes: the value matcher never matches a sequence against an
\* object, whichever of the two is the expected side and whatever keys the
\* object has; two objects match only with identical key sets and matching
\* values; two sequences match only with the same length and matching elements.
C16_Shapes ==
    vpc = "done" /\ verdict = "true" =>
        /\ ~ (expectedValue.t = "array" /\ actualValue.t = "object")
        /\ ~ (expectedValue.t = "object" /\ actualValue.t = "array")
        /\ expectedValue.t = "object" /\ actualValue.t = "object" =>
              /\ DOMAIN expectedValue.v = DOMAIN actualValue.v
              /\ \A key \in DOMAIN expectedValue.v :
                    isDeepEqual(expectedValue.v[key], actualValue.v[key]) = "true"
        /\ expectedValue.t = "array" /\ actualValue.t = "array" =>
              /\ Len(expectedValue.v) = Len(actualValue.v)
              /\ \A k \in DOMAIN expectedValue.v :
                    isDeepEqual(expectedValue.v[k], actualValue.v[k]) = "true"

----------------------------------------------------------------------------
\* Vocabulary of the properties of the event factory

\* the positions of the receipt's records that carry this factory's event
\* signature tag and were emitted by its emitter, whatever the letter case
OwnRecords ==
    {k \in DOMAIN receipt :
        /\ receipt[k].topics[1] = "Note(string,uint256)"
        /\ receipt[k].address \in {"0xa", "0xA"}}

\* the single record of the receipt that counts
TheRecord == receipt[CHOOSE k \in OwnRecords : TRUE]

\* the decoded field of parameter n (0-based) of record e by position, and
\* of the parameter called key by name; undefined when the decoder left it out
FieldAt(e, n) ==
    IF IndexKey(n) \in e.undecoded THEN Undefined
    ELSE IF n = 0 THEN Indexed(e.topics[2]) ELSE e.data[1]

FieldNamed(e, key) ==
    IF key \in e.undecoded THEN Undefined
    ELSE IF key = "tag" THEN Indexed(e.topics[2])
    ELSE IF key = "value" THEN e.data[1]
    ELSE Undefined

\* record e lacks a declared parameter, by position or by name
LacksField(e) == e.undecoded # {}

\* C17 - expectOne cardinality: expectOne fails whenever the receipt holds
\* zero or more than one record with this factory's event signature tag and
\* emitter address (compared case-insensitively), and passes the cardinality
\* check only with exactly one; records of other emitters or events do not count.
C17_Cardinality ==
    fpc = "done" /\ call = "expectOne" =>
        /\ Cardinality(OwnRecords) = 0 <=> ret.status = "NotFound"
        /\ Cardinality(OwnRecords) > 1 <=> ret.status = "NotSingle"
        /\ Cardinality(OwnRecords) = 1 <=> ret.status \in {"ok", "Mismatch", "MissingField"}

\* one record of the emitter in another letter case, among a record of
\* another emitter and a record of another event: expectOne returns it
C17_Witness ==
    /\ fpc = "done"
    /\ call = "expectOne"
    /\ Len(receipt) = 3
    /\ Cardinality(OwnRecords) = 1
    /\ \E k \in DOMAIN receipt : receipt[k].address = "0xb"
    /\ \E k \in DOMAIN receipt : receipt[k].topics[1] = StoreFragment.id
    /\ ret.status = "ok"

\* C18 - expectOne verification: with exactly one matching record, expectOne
\* fails if some non-null expected field, given by position or by name,
\* differs from the decoded field, or if some declared parameter is missing
\* from the decoded value by position or, when named, by name; null and
\* absent expected fields are never checked; otherwise the decoded value is
\* returned.
C18_Verification ==
    fpc = "done" /\ call = "expectOne" /\ Cardinality(OwnRecords) = 1 =>
        LET differs ==
                /\ expectedIn \notin {Null, Undefined}
                /\ \/ \E n \in 0..(Len(expectedIn.items) - 1) :
                         /\ expectedIn.items[n + 1] \notin {Null, Undefined}
                         /\ expectedIn.items[n + 1] # FieldAt(TheRecord, n)
                   \/ \E key \in DOMAIN expectedIn.named :
                         /\ expectedIn.named[key] \notin {Null, Undefined}
                         /\ expectedIn.named[key] # FieldNamed(TheRecord, key)
        IN  /\ ret.status # "ok" <=> (differs \/ LacksField(TheRecord))
            /\ ret.status = "ok" =>
                  /\ ret.value.items = <<FieldAt(TheRecord, 0), FieldAt(TheRecord, 1)>>
                  /\ DOMAIN ret.value.named = {"tag", "value"}
                  /\ \A key \in {"tag", "value"} :
                        ret.value.named[key] = FieldNamed(TheRecord, key)

\* Note("hello", 5) checked against [null, 5] with {value: 5} is returned
C18_Witness ==
    /\ fpc = "done"
    /\ call = "expectOne"
    /\ Cardinality(OwnRecords) = 1
    /\ expectedIn = [isArray |-> TRUE, items |-> <<Null, Num(5)>>,
                     named |-> [key \in {"value"} |-> Num(5)]]
    /\ ret.status = "ok"
    /\ ret.value.named["value"] = Num(5)

\* C19 - Indexed dynamic parameters as expected values: expectOne(receipt,
\* expected) given the original value of an indexed parameter of dynamic
\* type succeeds when the single matching record was emitted with that
\* value, while the decoded result holds only the Indexed placeholder.
C19_IndexedDynamic ==
    \A text \in Tags :
        ( /\ fpc = "done"
          /\ call = "expectOne"
          /\ Cardinality(OwnRecords) = 1
          /\ ~ LacksField(TheRecord)
          /\ TheRecord.topics[2] = Hash(text)
          /\ expectedIn = [isArray |-> FALSE, items |-> <<>>,
                           named |-> [key \in {"tag"} |-> Str(text)]] )
        => /\ ret.status = "ok"
           /\ ret.value.named["tag"] = Indexed(Hash(text))

\* C20 (as stated) - all(receipt, mapFn?) verifies every decoded matching
\* record against the every-declared-field-present rule, without mapFn and
\* with mapFn: a record lacking a declared field makes the call fail in
\* either case.
C20_Original ==
    fpc = "done" /\ call = "all" /\ OwnRecords # {} =>
        ( ret.status = "MissingField" <=> \E k \in OwnRecords : LacksField(receipt[k]) )

\* C20 (amended) - all(receipt) without mapFn verifies every decoded matching
\* record against the every-declared-field-present rule and fails when one
\* lacks a declared field; all(receipt, mapFn) hands the decoded records to
\* mapFn unverified and returns its result, also when a record lacks a field.
C20_AllVerifies ==
    fpc = "done" /\ call = "all" /\ OwnRecords # {} =>
        IF fn = Undefined
        THEN /\ ret.status = "MissingField" <=> \E k \in OwnRecords : LacksField(receipt[k])
             /\ ret.status = "ok" => Len(ret.value) = Cardinality(OwnRecords)
        ELSE /\ ret.status = "ok"
             /\ ret.value = Num(Cardinality(OwnRecords))

\* all(receipt, fn) returns fn's result for a receipt with a record that
\* lacks a declared field
C20_Witness ==
    /\ fpc = "done"
    /\ call = "all"
    /\ fn = CountFn
    /\ \E k \in OwnRecords : LacksField(receipt[k])
    /\ ret.status = "ok"

\* C21 - waitAll ordering: waitAll invokes the caller's callback only after
\* the source has resolved to a receipt whose status is success (1); when
\* the status is not success, waitAll fails and the callback is never
\* invoked; when waitAll succeeds it returns the very receipt whose logs
\* were given to the callback.
C21_WaitAllOrdering ==
    call = "waitAll" =>
        /\ fnArgs.called =>
              /\ source.kind \in {"receipt", "transaction"}
              /\ source.status = 1
              /\ fpc = "done"
              /\ receipt = source.logs
        /\ fpc = "done" /\ source.kind # "rejected" /\ source.status # 1 =>
              ret.status = "NotSuccessful" /\ ~ fnArgs.called
        /\ fpc = "done" /\ source.kind = "rejected" =>
              ret.status = "Rejected" /\ ~ fnArgs.called
        /\ fpc = "done" /\ ret.status = "ok" =>
              /\ ret.value = [logs |-> source.logs, status |-> 1]
              /\ fnArgs.called =>
                    /\ Len(fnArgs.args) = Cardinality(OwnRecords)
                    /\ \A k \in DOMAIN fnArgs.args :
                          \E n \in OwnRecords :
                              fnArgs.args[k].items[2] = FieldAt(receipt[n], 1)

\* a transaction whose receipt is a success with two Note records: the
\* callback got both and waitAll returned the receipt
C21_Witness ==
    /\ call = "waitAll"
    /\ fpc = "done"
    /\ source.kind = "transaction"
    /\ fnArgs.called
    /\ Len(fnArgs.args) = 2
    /\ ret.status = "ok"
    /\ ret.value.logs = source.logs

----------------------------------------------------------------------------
\* Vocabulary of the properties of the listener

\* emission e has event details, a block number and every declared field of
\* Note, by position and by name
Verifiable(e) ==
    /\ e.details
    /\ e.blockNumber # Undefined
    /\ e.args # Undefined
    /\ Len(e.args.items) = 2
    /\ \A k \in 1..2 : e.args.items[k] # Undefined
    /\ {"tag", "value"} \subseteq DOMAIN e.args.named

\* the emissions delivered so far that are verifiable, in delivery order
Verified == SelectSeq(pushes, LAMBDA e : Verifiable(e))

\* events() is the sequence of the converted verifiable emissions
EventsAreVerified ==
    /\ Len(events) = Len(Verified)
    /\ \A k \in DOMAIN events : events[k] = Verified[k].args

\* a delivery appends at most one entry and leaves the earlier ones alone; an
\* emission that is not verifiable raises a failure and appends nothing
AppendOnly ==
    /\ Len(events') >= Len(events)
    /\ SubSeq(events', 1, Len(events)) = events
    /\ Len(pushes') > Len(pushes) =>
          IF Verifiable(pushes'[Len(pushes')])
          THEN lastPush' = "ok" /\ Len(events') = Len(events) + 1
          ELSE lastPush' \in {"NoDetails", "NoBlockNumber", "MissingField"} /\ events' = events

\* C22 - Listener accumulation: after any sequence of pushed events, the
\* listener's events() is exactly the sequence of converted events that
\* passed verification, in delivery order; entries are only ever appended,
\* never removed, replaced or reordered; a pushed event that lacks event
\* details, a block number or a declared field raises a failure and is not
\* appended.
C22_Accumulation == [] EventsAreVerified /\ [][AppendOnly]_vars

\* three deliveries, the second without a block number: events() holds the
\* first and the third
C22_Witness ==
    /\ Len(pushes) = 3
    /\ Verifiable(pushes[1])
    /\ pushes[2].details /\ pushes[2].blockNumber = Undefined
    /\ Verifiable(pushes[3])
    /\ pushes[1] # pushes[3]
    /\ events = <<pushes[1].args, pushes[3].args>>

----------------------------------------------------------------------------
\* Vocabulary of the properties of the single-filter decoder

\* record e carries the filter's signature tag and, when the filter has a
\* target address, was emitted at it, whatever the letter case
Selected(e) ==
    /\ e.topics[1] = StoreFragment.id
    /\ logFilter.address = Undefined
          \/ (e.address \in {"0xa", "0xA"} /\ logFilter.address \in {Str("0xa"), Str("0xA")})

\* the records of the log that are selected, in log order
SelectedLogs == SelectSeq(logEntries, LAMBDA e : Selected(e))

\* C23 - Log Decoder: filterEventFromLog(logs, filter) returns, in original
\* log order and without failing on zero matches, the decoded values of
\* exactly the records whose topic 0 equals the filter's signature tag and
\* whose address matches the filter's target address if one is set,
\* compared case-insensitively; the nonIndexed constraints of the filter
\* play no part in the selection.
C23_LogDecoder ==
    dpc = "done" =>
        /\ decodedLogs.status = "ok"
        /\ Len(decodedLogs.value) = Len(SelectedLogs)
        /\ \A k \in DOMAIN SelectedLogs : decodedLogs.value[k] = SelectedLogs[k].data

\* two addresses are equal ignoring the letter case
SameAddress(a, b) ==
    \/ {a, b} \subseteq {"0xa", "0xA"}
    \/ {a, b} \subseteq {"0xb", "0xB"}

\* C24 - topicsMatch: a record matches a filter's pre-decode constraints if
\* and only if the filter has no target address or the record's address
\* equals it ignoring letter case, and the filter's topic constraint list is
\* no longer than the record's topic list, and every non-null constraint
\* equals the record's topic at the same position; null constraints match
\* any topic.
C24_TopicsMatch ==
    tpc = "done" =>
        ( topicsVerdict = "true" <=>
            /\ expectedFilter.address = Undefined
                  \/ SameAddress(actualLog.address, expectedFilter.address.v)
            /\ Len(expectedFilter.topics) <= Len(actualLog.topics)
            /\ \A k \in 1..Len(expectedFilter.topics) :
                  expectedFilter.topics[k] # Null =>
                      /\ k <= Len(actualLog.topics)
                      /\ expectedFilter.topics[k] = Str(actualLog.topics[k]) )

\* the filter [T1, null] at 0xA takes the record [T1, T2] emitted at 0xa
C24_Witness ==
    /\ tpc = "done"
    /\ actualLog = [address |-> "0xa", topics |-> <<"T1", "T2">>]
    /\ expectedFilter = [address |-> Str("0xA"), topics |-> <<Str("T1"), Null>>]
    /\ topicsVerdict = "true"

----------------------------------------------------------------------------
\* the first position of the search range of filter k
RangeStart(k) == IF forwardOnly THEN PrevBefore(k) + 1 ELSE 0

\* C25 - Greedy earliest match: whenever the ordered matcher returns, the
\* record matched by filter i is the lowest-position unconsumed record in
\* the filter's search range (from position 0 when forwardOnly is false,
\* from the previous match + 1 when it is true) that satisfies the filter's
\* topic and nonIndexed constraints; results[i] is that record's decoded
\* value and addresses[i] its emitter address, so a fully wildcard filter
\* takes the first unconsumed record with the matching signature tag and
\* address.
C25_GreedyEarliest ==
    outcome = "returned" =>
        /\ Len(matchedAt) = NumFilters
        /\ \A k \in 1..NumFilters :
              /\ {q \in Cands(k) : q >= RangeStart(k)} # {}
              /\ matchedAt[k] = Min({q \in Cands(k) : q >= RangeStart(k)})
              /\ result[k] = actuals[matchedAt[k] + 1].data
              /\ resultAddr[k] = actuals[matchedAt[k] + 1].address
              /\ expecteds[k] = StoreFilter(Undefined, Undefined) =>
                    matchedAt[k] = Min({q \in RangeStart(k)..(NumLogs - 1) :
                                           q \notin ConsumedBefore(k)})

\* the filter {value: 2} takes record 0, and the wildcard filter after it
\* takes record 1, the first one left
C25_Witness ==
    /\ outcome = "returned"
    /\ ~ forwardOnly
    /\ NumFilters = 2
    /\ expecteds[1] = StoreFilter(Str("0xA"), Arr(<<Num(2)>>))
    /\ expecteds[2] = StoreFilter(Undefined, Undefined)
    /\ NumLogs = 3
    /\ matchedAt = <<0, 1>>

\* C26 - forwardOnly false within true: for every log sequence and filter
\* list, if the ordered matcher succeeds with forwardOnly false then it also
\* succeeds with forwardOnly true on the same inputs and returns the same
\* matched positions, results and addresses.
C26_FalseWithinTrue ==
    priorRun.status = "ok" /\ outcome # "none" =>
        /\ forwardOnly
        /\ outcome = "returned"
        /\ matchedAt = priorRun.matchedAt
        /\ result = priorRun.result
        /\ resultAddr = priorRun.resultAddr

\* both calls return positions 0 and 2 for two filters on three records
C26_Witness ==
    /\ priorRun.status = "ok"
    /\ outcome = "returned"
    /\ forwardOnly
    /\ NumLogs = 3
    /\ priorRun.matchedAt = <<0, 2>>
    /\ matchedAt = <<0, 2>>

\* the assignments of the filters to satisfying records at strictly
\* increasing positions
IncreasingAssignments ==
    {a \in [1..NumFilters -> 0..(NumLogs - 1)] :
        /\ \A k \in 1..NumFilters : Satisfies(actuals[a[k] + 1], expecteds[k])
        /\ \A k \in 1..NumFilters : \A h \in 1..NumFilters : h < k => a[h] < a[k]}

\* C27 - greedy is complete with forwardOnly true: the matcher succeeds if and
\* only if some assignment of the filters to satisfying records at strictly
\* increasing positions exists, and on success each filter's matched position
\* is no greater than its position in any such assignment.
C27_GreedyComplete ==
    forwardOnly /\ pc = "done" =>
        /\ outcome = "returned" <=> IncreasingAssignments # {}
        /\ outcome = "returned" =>
              \A a \in IncreasingAssignments :
                  \A k \in 1..NumFilters : matchedAt[k] <= a[k]

\* two filters matched at 0 and 1 where 1 and 2 is an assignment as well
C27_Witness ==
    /\ forwardOnly
    /\ outcome = "returned"
    /\ NumFilters = 2
    /\ NumLogs = 3
    /\ matchedAt = <<0, 1>>
    /\ [k \in 1..2 |-> k] \in IncreasingAssignments
    /\ Cardinality(IncreasingAssignments) > 1

\* C29 - occurrenceAtMost delays for at most maximumDelayMs in total: for every
\* maximumDelayMs >= 0 and every behaviour of earlyStop the sum of the sleep
\* increments never exceeds maximumDelayMs, and no sleep is performed after
\* earlyStop() has returned true.
C29_AtMost ==
    /\ sleptMs <= maximumDelayMs
    /\ stopped => opc = "done"

\* the call reached findEventArgs: expectOne and all at once, waitAll after
\* the source gave the receipt of a successful transaction
Searched ==
    \/ call \in {"expectOne", "all"}
    \/ call = "waitAll" /\ source.kind \in {"receipt", "transaction"} /\ source.status = 1

\* C28 - nothing found is a failure: all, waitAll and expectOne fail with
\* 'Failed to find any event matching name' when the receipt holds no record
\* with this factory's event signature and emitter; all never returns an
\* empty list and the callback of all / waitAll is never invoked with an
\* empty list.
C28_NoneFoundFails ==
    /\ fpc = "done" /\ OwnRecords = {} =>
          /\ ret.status \in {"NotFound", "NotSuccessful", "Rejected"}
          /\ Searched <=> ret.status = "NotFound"
          /\ ~ fnArgs.called
    /\ fpc = "done" /\ ret.status = "NotFound" => OwnRecords = {}
    /\ fpc = "done" /\ call = "all" /\ fn = Undefined /\ ret.status = "ok" =>
          Len(ret.value) > 0
    /\ fnArgs.called => Len(fnArgs.args) > 0

\* waitAll with a callback on the receipt of a successful transaction that
\* holds records of another emitter and of another event only
C28_Witness ==
    /\ fpc = "done"
    /\ call = "waitAll"
    /\ fn = CountFn
    /\ source.kind = "transaction"
    /\ source.status = 1
    /\ Len(receipt) = 2
    /\ OwnRecords = {}
    /\ ret.status = "NotFound"
    /\ ~ fnArgs.called

----------------------------------------------------------------------------
\* Vocabulary of the properties of the contract wrappers

Present(v) == v \notin {Null, Undefined}

\* the signers at hand in the order call, wrapper, default
Offered == <<callSigner, delegateSigner, defaultSigner>>

NonePresent == \A k \in 1..3 : ~ Present(Offered[k])

\* the first present of the three
FirstPresent == Offered[Min({k \in 1..3 : Present(Offered[k])})]

\* C30 - signer resolution: deploy and the functions returned by
\* deployWithDelegate / attachWithDelegate construct the factory with the
\* first present of (signer passed to the call, signer given to the wrapper,
\* default signer), awaiting it if it is a promise, and fail with 'Signer is
\* not available' when none is present; the synchronous attach uses the
\* call's signer, else the default signer only if it is an already resolved
\* Signer, and otherwise fails instead of using a pending default signer.
C30_SignerResolution ==
    wpc = "done" /\ Present(factoryClass) =>
        /\ method \in Asynchronous =>
              /\ NonePresent <=> wrapped.status = "Signer is not available"
              /\ NonePresent => factory.status = "none"
              /\ ~ NonePresent /\ FirstPresent.t = "signer" =>
                    /\ wrapped.status = "ok"
                    /\ factory = [status |-> "constructed", signer |-> FirstPresent]
              /\ ~ NonePresent /\ FirstPresent.t = "promise" =>
                    IF FirstPresent.settles = "resolved"
                    THEN /\ wrapped.status = "ok"
                         /\ factory = [status |-> "constructed", signer |-> FirstPresent.value]
                    ELSE /\ wrapped.status = "Rejected"
                         /\ factory.status = "none"
        /\ method = "attach" =>
              IF Present(callSigner)
              THEN /\ wrapped.status = "ok"
                   /\ factory = [status |-> "connected", signer |-> callSigner]
              ELSE IF defaultSigner.t = "signer"
              THEN /\ wrapped.status = "ok"
                   /\ factory = [status |-> "connected", signer |-> defaultSigner]
              ELSE /\ wrapped.status = "Signer is not available or needs to be resolved"
                   /\ factory.status = "none"

\* a delegate function called without signer, its wrapper given a promise,
\* the default being a Signer: the factory gets the promise's Signer
C30_Witness ==
    /\ wpc = "done"
    /\ method = "attachWithDelegate"
    /\ callSigner = Null
    /\ delegateSigner = Resolving("delegate")
    /\ defaultSigner = ASigner("default")
    /\ wrapped.status = "ok"
    /\ factory.signer = ASigner("delegate")

====
